---- MODULE Spec2Model ----
(***************************************************************************)
(* State-machine model of the ShikshaLok classroom backend: the            *)
(* ClassSession lifecycle (REST controllers and the session_control        *)
(* socket handler over the ClassSession model methods) and the Poll        *)
(* engine (REST votePoll, socket poll_vote, closePoll, getPollById over    *)
(* the Poll model), student enrollment, and the Attendance record (join,   *)
(* activity reports, location updates, engagement), chat messages.  A     *)
(* handler that runs alone saves its copy of the document.  Saves of       *)
(* overlapping requests are modelled as Mongoose sends them: the changed   *)
(* paths only, an array push as an append, and a change inside an array    *)
(* element conditioned on the version the copy was loaded with.  Every     *)
(* save is preceded by the schema's pre('save') hook.                      *)
(***************************************************************************)
EXTENDS Integers, Sequences, FiniteSets, TLC

\* ---------------------------------------------------------------- bounds
MaxTime == 2

\* "no value" of a Date field (times are 1..MaxTime)
NULL == -1

\* ---------------------------------------------------------------- principals
Owner == "f1"
Students == {"s1", "s2"}
Actors == { [id |-> "f1", role |-> "faculty"],
            [id |-> "f2", role |-> "faculty"],
            [id |-> "a1", role |-> "admin"],
            [id |-> "s1", role |-> "student"] }

VARIABLES now, session, everLive, sessRes, poll, pollRes, reqs,
          resBody, att, attRes, emitted, msg, chatRes, sessions

vars == <<now, session, everLive, sessRes, poll, pollRes, reqs,
          resBody, att, attRes, emitted, msg, chatRes, sessions>>

\* ---------------------------------------------------------------- helpers
\* students.filter(s => s.isPresent).length
presentCount(roster) ==
  Cardinality({i \in 1..Len(roster) : roster[i].isPresent})

\* students.filter(s => s.joinedAt).length
joinedCount(roster) ==
  Cardinality({i \in 1..Len(roster) : roster[i].joinedAt # NULL})

\* index of the first roster entry of student s, 0 if none (Array.find)
FindStudent(roster, s) ==
  IF \E i \in 1..Len(roster) : roster[i].student = s
  THEN CHOOSE i \in 1..Len(roster) :
         /\ roster[i].student = s
         /\ \A j \in 1..(i-1) : roster[j].student # s
  ELSE 0

\* ---------------------------------------------------------------- ClassSession model
\* Math.round(presentCount / students.length * 100), 0 on an empty roster
calculatedAttendanceRate(d) ==
  IF Len(d.students) = 0 THEN 0
  ELSE (200 * presentCount(d.students) + Len(d.students))
         \div (2 * Len(d.students))

\* classSessionSchema.pre('save')
preSaveSession(d) ==
  [d EXCEPT !.analytics =
     [ totalStudentsEnrolled |-> Len(d.students),
       totalStudentsJoined   |-> joinedCount(d.students),
       attendanceRate        |-> calculatedAttendanceRate(d),
       maxConcurrentStudents |-> d.analytics.maxConcurrentStudents ]]

startSession(d, t) ==
  preSaveSession([d EXCEPT !.status = "live", !.isActive = TRUE,
                           !.actualStartTime = t])

endSession(d, t) ==
  preSaveSession(
    [d EXCEPT !.status = "ended", !.isActive = FALSE, !.actualEndTime = t,
              !.students = [i \in 1..Len(d.students) |->
                 IF d.students[i].isPresent /\ d.students[i].leftAt = NULL
                 THEN [d.students[i] EXCEPT !.leftAt = t, !.isPresent = FALSE]
                 ELSE d.students[i]]])

\* a pause that also checks out everyone present
pauseSession_checkout(d) ==
  preSaveSession(
    [d EXCEPT !.status = "paused",
              !.students = [i \in 1..Len(d.students) |->
                 [d.students[i] EXCEPT !.isPresent = FALSE]]])

pauseSession(d) == preSaveSession([d EXCEPT !.status = "paused"])

resumeSession(d) == preSaveSession([d EXCEPT !.status = "live"])

markStudentJoined(d, s, t) ==
  LET i == FindStudent(d.students, s) IN
  preSaveSession(
    IF i # 0
    THEN LET d1 == [d EXCEPT !.students[i].joinedAt = t,
                             !.students[i].isPresent = TRUE]
             currentPresent == presentCount(d1.students)
         IN IF currentPresent > d1.analytics.maxConcurrentStudents
            THEN [d1 EXCEPT !.analytics.maxConcurrentStudents = currentPresent]
            ELSE d1
    ELSE d)

markStudentLeft(d, s, t) ==
  LET i == FindStudent(d.students, s) IN
  preSaveSession(
    IF i # 0
    THEN [d EXCEPT !.students[i].leftAt = t, !.students[i].isPresent = FALSE]
    ELSE d)

\* students.some(s => s.student.equals(studentId))
isEnrolledOn(roster, s) == \E i \in 1..Len(roster) : roster[i].student = s

\* students.push({ student, enrolledAt }) unless the copy already holds the
\* student; the caller saves
addStudent(d, s) ==
  IF FindStudent(d.students, s) = 0
  THEN [d EXCEPT !.students = Append(@, [student |-> s, joinedAt |-> NULL,
                                         leftAt |-> NULL, isPresent |-> FALSE])]
  ELSE d

\* ---------------------------------------------------------------- session operations
\* answer slot before any request and after the clock moved
NoAnswer == [op |-> "none", entry |-> "none",
             actor |-> [id |-> "none", role |-> "none"], res |-> "none"]

\* a response that carries no data
NoBody == [kind |-> "none"]

\* no chat message stored
NoMessage == [exists |-> FALSE]

\* every operation records what it answered and leaves the document alone
\* unless it reached a save
Answer(op, entry, actor, res, d) ==
  /\ session' = d
  /\ sessRes' = [op |-> op, entry |-> entry, actor |-> actor, res |-> res]
  /\ everLive' = (everLive \/ d.status = "live")
  /\ resBody' = NoBody
  /\ emitted' = <<>>
  /\ UNCHANGED <<msg, chatRes, sessions>>
  /\ UNCHANGED <<now, poll, pollRes, reqs, att, attRes>>

\* middleware requireRole(roles)
requireRole(actor, roles) == actor.role \in roles

\* ownership test that lets every faculty through
isOwner_anyFaculty(actor) == actor.role = "faculty"

\* session.faculty.equals(userId)
isOwner(actor) == actor.id = Owner

\* what a session handler answers and the document it leaves stored
Outcome(res, d) == [res |-> res, doc |-> d]

\* controllers/sessionController.js startSession, on the loaded document d
startOutcome(actor, d, t) ==
  IF ~requireRole(actor, {"faculty"})
  THEN Outcome("PermissionDenied", d)
  ELSE IF ~isOwner(actor)
  THEN Outcome("PermissionDenied", d)
  ELSE IF d.status = "live"
  THEN Outcome("InvalidState", d)
  ELSE IF d.status \in {"ended", "cancelled"}
  THEN Outcome("InvalidState", d)
  ELSE Outcome("ok", startSession(d, t))

\* controllers/sessionController.js endSession
endOutcome(actor, d, t) ==
  IF ~requireRole(actor, {"faculty"})
  THEN Outcome("PermissionDenied", d)
  ELSE IF ~isOwner(actor)
  THEN Outcome("PermissionDenied", d)
  ELSE IF d.status # "live"
  THEN Outcome("InvalidState", d)
  ELSE Outcome("ok", endSession(d, t))

\* controllers/sessionController.js pauseResumeSession
pauseResumeOutcome(actor, action, d) ==
  IF ~requireRole(actor, {"faculty"})
  THEN Outcome("PermissionDenied", d)
  ELSE IF ~isOwner(actor)
  THEN Outcome("PermissionDenied", d)
  ELSE IF action = "pause" /\ d.status # "live"
  THEN Outcome("InvalidState", d)
  ELSE IF action = "resume" /\ d.status # "paused"
  THEN Outcome("InvalidState", d)
  ELSE IF action = "pause"
  THEN Outcome("ok", pauseSession(d))
  ELSE Outcome("ok", resumeSession(d))

\* controllers/sessionController.js deleteSession
deleteOutcome(actor, d) ==
  IF ~requireRole(actor, {"faculty", "admin"})
  THEN Outcome("PermissionDenied", d)
  ELSE IF actor.role = "faculty" /\ ~isOwner(actor)
  THEN Outcome("PermissionDenied", d)
  ELSE IF d.status = "live"
  THEN Outcome("InvalidState", d)
  ELSE Outcome("ok", preSaveSession([d EXCEPT !.status = "cancelled"]))

\* socket/sessionHandlers.js session_control
controlOutcome(actor, action, d, t) ==
  IF actor.role # "faculty" \/ ~isOwner(actor)
  THEN Outcome("PermissionDenied", d)
  ELSE IF action = "start"
  THEN IF d.status = "live"
       THEN Outcome("InvalidState", d)
       ELSE Outcome("ok", startSession(d, t))
  ELSE IF action = "end"
  THEN IF d.status # "live"
       THEN Outcome("InvalidState", d)
       ELSE Outcome("ok", endSession(d, t))
  ELSE IF action = "pause"
  THEN IF d.status # "live"
       THEN Outcome("InvalidState", d)
       ELSE Outcome("ok", pauseSession(d))
  ELSE IF action = "resume"
  THEN IF d.status # "paused"
       THEN Outcome("InvalidState", d)
       ELSE Outcome("ok", resumeSession(d))
  ELSE Outcome("InvalidAction", d)

\* controllers/sessionController.js startSession behind routes POST /:sessionId/start
Ctrl_startSession(actor) ==
  LET o == startOutcome(actor, session, now)
  IN Answer("start", "rest", actor, o.res, o.doc)

Ctrl_endSession(actor) ==
  LET o == endOutcome(actor, session, now)
  IN Answer("end", "rest", actor, o.res, o.doc)

Ctrl_pauseResumeSession(actor, action) ==
  LET o == pauseResumeOutcome(actor, action, session)
  IN Answer(action, "rest", actor, o.res, o.doc)

Ctrl_deleteSession(actor) ==
  LET o == deleteOutcome(actor, session)
  IN Answer("cancel", "rest", actor, o.res, o.doc)

\* socket/sessionHandlers.js session_control on the one session
session_control(actor, action) ==
  LET o == controlOutcome(actor, action, session, now)
  IN Answer(action, "socket", actor, o.res, o.doc)

\* ClassSession.markStudentJoined / markStudentLeft invoked on the document
MarkJoined(s) ==
  Answer("join", "model", [id |-> s, role |-> "student"], "ok",
         markStudentJoined(session, s, now))

MarkLeft(s) ==
  Answer("leave", "model", [id |-> s, role |-> "student"], "ok",
         markStudentLeft(session, s, now))

\* ---------------------------------------------------------------- enrollment
\* ids a request may name: the college's students and one id that is not a
\* student of the college
UnknownId == "x1"
IdPool == Students \cup {UnknownId}
IdLists == {<<>>} \cup { <<a>> : a \in IdPool }
             \cup { <<a, b>> : a \in IdPool, b \in IdPool }

\* User.find({ _id: { $in: studentIds }, role: 'student', college, isActive })
\* returns as many users as ids were submitted
allStudentsFound(ids) ==
  Cardinality({ ids[i] : i \in 1..Len(ids) } \cap Students) = Len(ids)

\* the checks of the enroll handler made before its loop
enrollChecks(actor, ids) ==
  IF ~requireRole(actor, {"faculty", "admin"}) THEN "PermissionDenied"
  ELSE IF Len(ids) = 0 THEN "InvalidStudentIds"
  ELSE IF actor.role = "faculty" /\ ~isOwner(actor) THEN "PermissionDenied"
  ELSE IF ~allStudentsFound(ids) THEN "InvalidStudents"
  ELSE "ok"

\* controllers/sessionController.js enrollStudents: the loop over studentIds
\* on the loaded document (let enrolledCount), each addStudent saving
RECURSIVE enrollLoop(_, _, _, _)
enrollLoop(d, ids, enrolledCount, alreadyEnrolled) ==
  IF ids = <<>>
  THEN [res |-> "ok", doc |-> d, enrolledCount |-> enrolledCount,
        alreadyEnrolled |-> alreadyEnrolled]
  ELSE IF ~isEnrolledOn(d.students, Head(ids))
  THEN enrollLoop(preSaveSession(addStudent(d, Head(ids))), Tail(ids),
                  enrolledCount + 1, alreadyEnrolled)
  ELSE enrollLoop(d, Tail(ids), enrolledCount, alreadyEnrolled + 1)

\* routes/session.js POST /:sessionId/enroll: the same loop with
\* const enrolledCount = 0; the increment after the first addStudent throws
\* and the handler leaves through catch
RECURSIVE routeEnrollLoop(_, _, _)
routeEnrollLoop(d, ids, alreadyEnrolled) ==
  IF ids = <<>>
  THEN [res |-> "ok", doc |-> d, enrolledCount |-> 0,
        alreadyEnrolled |-> alreadyEnrolled]
  ELSE IF ~isEnrolledOn(d.students, Head(ids))
  THEN [res |-> "ServerError",
        doc |-> preSaveSession(addStudent(d, Head(ids))),
        enrolledCount |-> 0, alreadyEnrolled |-> alreadyEnrolled]
  ELSE routeEnrollLoop(d, Tail(ids), alreadyEnrolled + 1)

EnrollAnswer(entry, actor, ids, out) ==
  /\ session' = out.doc
  /\ sessRes' = [op |-> "enroll", entry |-> entry, actor |-> actor,
                 res |-> out.res, ids |-> ids]
  /\ resBody' = IF out.res = "ok"
                THEN [kind |-> "enroll",
                      enrolledCount |-> out.enrolledCount,
                      alreadyEnrolled |-> out.alreadyEnrolled,
                      totalEnrolled |-> Len(out.doc.students)]
                ELSE NoBody
  /\ everLive' = everLive
  /\ emitted' = <<>>
  /\ UNCHANGED <<msg, chatRes, sessions>>
  /\ UNCHANGED <<now, poll, pollRes, reqs, att, attRes>>

Refused(res) == [res |-> res, doc |-> session, enrolledCount |-> 0,
                 alreadyEnrolled |-> 0]

Ctrl_enrollStudents(actor, ids) ==
  LET c == enrollChecks(actor, ids) IN
  EnrollAnswer("controller", actor, ids,
               IF c # "ok" THEN Refused(c) ELSE enrollLoop(session, ids, 0, 0))

Route_enroll(actor, ids) ==
  LET c == enrollChecks(actor, ids) IN
  EnrollAnswer("route", actor, ids,
               IF c # "ok" THEN Refused(c) ELSE routeEnrollLoop(session, ids, 0))

\* ---------------------------------------------------------------- session specification
RosterEntry(s) ==
  [student |-> s, joinedAt |-> NULL, leftAt |-> NULL, isPresent |-> FALSE]

\* a session as createSession persists it, with the given students enrolled
\* and nobody joined yet
NewSession(roster) ==
  preSaveSession(
    [ status |-> "scheduled", isActive |-> FALSE,
      actualStartTime |-> NULL, actualEndTime |-> NULL,
      settings |-> [allowLateJoin |-> TRUE, lateJoinCutoffMinutes |-> 15],
      students |-> roster,
      analytics |-> [ totalStudentsEnrolled |-> 0, totalStudentsJoined |-> 0,
                      attendanceRate |-> 0, maxConcurrentStudents |-> 0 ] ])

\* ---------------------------------------------------------------- overlapping enroll requests
\* session.save() of a copy that was loaded as `loaded` and is now d: the
\* entries pushed onto students since the load are appended to the stored
\* array ($push on a top-level array path carries no version condition), and
\* the analytics fields the hook changed are set
saveSession(db, loaded, d) ==
  LET pushed == SubSeq(d.students, Len(loaded.students) + 1, Len(d.students))
      pick(f) == IF d.analytics[f] # loaded.analytics[f]
                 THEN d.analytics[f] ELSE db.analytics[f]
  IN [db EXCEPT !.students = @ \o pushed,
                !.analytics = [f \in DOMAIN db.analytics |-> pick(f)]]

\* the owner's enroll requests that overlap
ConcIdLists == { <<"s1">>, <<"s2">>, <<"s1", "s2">> }

IdleEnroll == [pc |-> "idle", entry |-> "none", ids |-> <<>>,
               doc |-> NewSession(<<>>), enrolledCount |-> 0,
               alreadyEnrolled |-> 0, res |-> "none"]

\* ClassSession.findById(sessionId): the request passed its checks and
\* takes its copy
LoadEnroll(r, entry, ids) ==
  /\ reqs[r].pc = "idle"
  /\ \A q \in 1..(r-1) : reqs[q].pc # "idle"
  /\ enrollChecks([id |-> Owner, role |-> "faculty"], ids) = "ok"
  /\ reqs' = [reqs EXCEPT ![r] =
        [pc |-> "loop", entry |-> entry, ids |-> ids, doc |-> session,
         enrolledCount |-> 0, alreadyEnrolled |-> 0, res |-> "none"]]
  /\ emitted' = <<>>
  /\ UNCHANGED <<msg, chatRes, sessions>>
  /\ UNCHANGED <<now, session, everLive, sessRes, poll, pollRes,
                 resBody, att, attRes>>

\* one turn of the loop: the check on the copy and, for a student the copy
\* does not hold, await session.addStudent(studentId)
StepEnroll(r) ==
  /\ reqs[r].pc = "loop"
  /\ LET q == reqs[r]
         h == Head(q.ids)
         last == Len(q.ids) = 1
     IN IF isEnrolledOn(q.doc.students, h)
        THEN /\ reqs' = [reqs EXCEPT ![r] =
                  [q EXCEPT !.ids = Tail(q.ids),
                            !.alreadyEnrolled = @ + 1,
                            !.pc = IF last THEN "done" ELSE "loop",
                            !.res = IF last THEN "ok" ELSE "none"]]
             /\ session' = session
        ELSE LET d == preSaveSession(addStudent(q.doc, h))
                 thrown == q.entry = "route"
             IN /\ session' = saveSession(session, q.doc, d)
                /\ reqs' = [reqs EXCEPT ![r] =
                     [q EXCEPT !.doc = d,
                               !.ids = Tail(q.ids),
                               !.enrolledCount = IF thrown THEN @ ELSE @ + 1,
                               !.pc = IF thrown \/ last THEN "done" ELSE "loop",
                               !.res = IF thrown THEN "ServerError"
                                       ELSE IF last THEN "ok" ELSE "none"]]
  /\ emitted' = <<>>
  /\ UNCHANGED <<msg, chatRes, sessions>>
  /\ UNCHANGED <<now, everLive, sessRes, poll, pollRes, resBody, att, attRes>>

\* ---------------------------------------------------------------- Attendance model
\* the Attendance collection holds at most one record, that of the pair
\* (the session, student s1); att is that record or NoAttendance
AttStudent == "s1"
NoAttendance == [exists |-> FALSE]

\* new Attendance({ student, session, joinTime, isPresent }) with the
\* schema's defaults
NewAttendance(joinTime, isPresent) ==
  [ exists |-> TRUE,
    joinTime |-> joinTime, leaveTime |-> NULL, totalDuration |-> 0,
    isPresent |-> isPresent,
    location |-> [held |-> FALSE, at |-> [lat |-> 0, lng |-> 0],
                  isVerified |-> FALSE],
    activityMonitoring |-> [ tabSwitches |-> 0, appSwitches |-> 0,
                             windowFocusLoss |-> 0, inactiveTime |-> 0,
                             screenshotAttempts |-> 0,
                             recordingAttempts |-> 0 ],
    engagement |-> [ messagesCount |-> 0, pollsParticipated |-> 0,
                     questionsAsked |-> 0, reactionsGiven |-> 0,
                     participationScore |-> 0 ],
    alerts |-> <<>>,
    status |-> "joined",
    calculated |-> [ engagementLevel |-> "medium", behaviorScore |-> 100,
                     riskLevel |-> "low" ] ]

\* an element of alerts as alerts.push({ type, details, severity,
\* additionalData }) stores it: isResolved defaults to false and nobody
\* has resolved it; of additionalData the model keeps the resolution
Alert(type, severity) ==
  [ type |-> type, severity |-> severity,
    isResolved |-> FALSE, resolvedAt |-> NULL, resolvedBy |-> "none",
    additionalData |-> [resolution |-> "none"] ]

\* alerts.filter(a => a.severity === sev).length
alertCount(alerts, sev) ==
  Cardinality({ i \in 1..Len(alerts) : alerts[i].severity = sev })

\* attendanceSchema.virtual('calculatedEngagementLevel')
calculatedEngagementLevel(d) ==
  LET score == d.engagement.participationScore IN
  IF score >= 80 THEN "very_high"
  ELSE IF score >= 60 THEN "high"
  ELSE IF score >= 40 THEN "medium"
  ELSE IF score >= 20 THEN "low"
  ELSE "very_low"

\* a hook that forgets Math.max(0, ...)
preSaveAttendance_unclamped(d) ==
  LET m == d.activityMonitoring
      behaviorScore == 100 - m.tabSwitches * 2 - m.appSwitches * 5
                           - m.windowFocusLoss * 1 - m.screenshotAttempts * 20
                           - m.recordingAttempts * 30
      criticalAlerts == alertCount(d.alerts, "critical")
      highAlerts == alertCount(d.alerts, "high")
      riskLevel == IF criticalAlerts > 0 \/ behaviorScore < 30 THEN "critical"
                   ELSE IF highAlerts > 2 \/ behaviorScore < 50 THEN "high"
                   ELSE IF highAlerts > 0 \/ behaviorScore < 70 THEN "medium"
                   ELSE "low"
  IN [d EXCEPT !.totalDuration = IF d.joinTime # NULL /\ d.leaveTime # NULL
                                 THEN d.leaveTime - d.joinTime ELSE @,
               !.calculated = [ engagementLevel |-> calculatedEngagementLevel(d),
                                behaviorScore |-> behaviorScore,
                                riskLevel |-> riskLevel ]]

\* attendanceSchema.pre('save')
preSaveAttendance(d) ==
  LET m == d.activityMonitoring
      raw == 100 - m.tabSwitches * 2 - m.appSwitches * 5
                 - m.windowFocusLoss * 1 - m.screenshotAttempts * 20
                 - m.recordingAttempts * 30
      behaviorScore == IF raw < 0 THEN 0 ELSE raw
      criticalAlerts == alertCount(d.alerts, "critical")
      highAlerts == alertCount(d.alerts, "high")
      riskLevel == IF criticalAlerts > 0 \/ behaviorScore < 30 THEN "critical"
                   ELSE IF highAlerts > 2 \/ behaviorScore < 50 THEN "high"
                   ELSE IF highAlerts > 0 \/ behaviorScore < 70 THEN "medium"
                   ELSE "low"
  IN [d EXCEPT !.totalDuration = IF d.joinTime # NULL /\ d.leaveTime # NULL
                                 THEN d.leaveTime - d.joinTime ELSE @,
               !.calculated = [ engagementLevel |-> calculatedEngagementLevel(d),
                                behaviorScore |-> behaviorScore,
                                riskLevel |-> riskLevel ]]

\* a lookup by session alone
hasAttendance_anyStudent(u) == att.exists

\* Math.min(a, b)
min(a, b) == IF a <= b THEN a ELSE b

\* attendanceSchema.methods.updateEngagement: count, rescore, save
updateEngagement(d, type, value) ==
  LET e == d.engagement
      counted ==
        IF type = "message" THEN [e EXCEPT !.messagesCount = @ + value]
        ELSE IF type = "poll" THEN [e EXCEPT !.pollsParticipated = @ + value]
        ELSE IF type = "question" THEN [e EXCEPT !.questionsAsked = @ + value]
        ELSE IF type = "reaction" THEN [e EXCEPT !.reactionsGiven = @ + value]
        ELSE e
      score == min(100, 50 + min(counted.messagesCount * 2, 20)
                           + min(counted.pollsParticipated * 5, 15)
                           + min(counted.questionsAsked * 3, 10)
                           + min(counted.reactionsGiven * 1, 5))
  IN preSaveAttendance(
       [d EXCEPT !.engagement = [counted EXCEPT !.participationScore = score]])

\* Attendance.findOne({ session, student }): the record of the asking user
hasAttendance(u) == att.exists /\ u = AttStudent

\* every attendance operation records what it answered
AttAnswer(op, entry, actor, arg, res, a) ==
  /\ att' = a
  /\ attRes' = [op |-> op, entry |-> entry, actor |-> actor, res |-> res,
                arg |-> arg]
  /\ resBody' = NoBody
  /\ emitted' = <<>>
  /\ UNCHANGED <<msg, chatRes, sessions>>
  /\ UNCHANGED <<now, session, everLive, sessRes, poll, pollRes, reqs>>

\* socket/sessionHandlers.js join_session
join_session(actor) ==
  IF ~isEnrolledOn(session.students, actor.id) /\ actor.role = "student"
  THEN AttAnswer("join", "socket", actor, "none", "NotEnrolled", att)
  ELSE IF hasAttendance(actor.id)
  THEN AttAnswer("join", "socket", actor, "none", "ok",
         preSaveAttendance(
           [att EXCEPT !.joinTime = IF @ # NULL THEN @ ELSE now,
                       !.isPresent = TRUE]))
  ELSE AttAnswer("join", "socket", actor, "none", "ok", att)

\* socket/sessionHandlers.js leave_session
leave_session(actor) ==
  IF hasAttendance(actor.id)
  THEN AttAnswer("leave", "socket", actor, "none", "ok",
         preSaveAttendance([att EXCEPT !.leaveTime = now, !.isPresent = FALSE]))
  ELSE AttAnswer("leave", "socket", actor, "none", "ok", att)

\* ---------------------------------------------------------------- activity and location
MaxAlerts == 3

\* an addAlert that keeps the two newest alerts only
addAlert_rolling(d, type, severity) ==
  LET all == Append(d.alerts, Alert(type, severity))
  IN preSaveAttendance(
       [d EXCEPT !.alerts = IF Len(all) > 2
                            THEN SubSeq(all, Len(all) - 1, Len(all))
                            ELSE all])

\* attendanceSchema.methods.addAlert: push, count, save
addAlert(d, type, severity) ==
  LET m == d.activityMonitoring
      counted ==
        IF type = "tab_switch" THEN [m EXCEPT !.tabSwitches = @ + 1]
        ELSE IF type = "app_switch" THEN [m EXCEPT !.appSwitches = @ + 1]
        ELSE IF type = "window_focus_loss"
        THEN [m EXCEPT !.windowFocusLoss = @ + 1]
        ELSE IF type = "screenshot_attempt"
        THEN [m EXCEPT !.screenshotAttempts = @ + 1]
        ELSE IF type = "recording_attempt"
        THEN [m EXCEPT !.recordingAttempts = @ + 1]
        ELSE m
  IN preSaveAttendance(
       [d EXCEPT !.alerts = Append(@, Alert(type, severity)),
                 !.activityMonitoring = counted])

\* activity reports: the activityType and, for network_change, whether
\* details.connectionLost is set (details carry no duration)
ActivityTypes == { "heartbeat", "tab_switch", "app_switch",
                   "window_focus_loss", "inactive_period", "network_change",
                   "suspicious_activity", "screenshot_attempt",
                   "recording_attempt" }
ActivityReports ==
  { [type |-> ty, connectionLost |-> FALSE] : ty \in ActivityTypes }
    \cup { [type |-> "network_change", connectionLost |-> TRUE] }

\* the switch (activityType) of reportActivity and recordStudentActivity,
\* followed by attendance.save()
applyActivity(d, rq) ==
  preSaveAttendance(
    CASE rq.type = "heartbeat" -> [d EXCEPT !.status = "active"]
      [] rq.type = "tab_switch" -> addAlert(d, "tab_switch", "medium")
      [] rq.type = "app_switch" -> addAlert(d, "app_switch", "high")
      [] rq.type = "window_focus_loss" ->
           addAlert(d, "window_focus_loss", "low")
      [] rq.type = "inactive_period" -> [d EXCEPT !.status = "inactive"]
      [] rq.type = "network_change" ->
           IF rq.connectionLost
           THEN addAlert(d, "network_disconnect", "medium") ELSE d
      [] rq.type = "suspicious_activity" ->
           addAlert(d, "suspicious_activity", "high")
      [] OTHER -> d)

\* the report would push an alert
raisesAlert(rq) ==
  \/ rq.type \in {"tab_switch", "app_switch", "window_focus_loss",
                  "suspicious_activity"}
  \/ (rq.type = "network_change" /\ rq.connectionLost)

\* controllers/attendanceController.js reportActivity
reportActivity(actor, rq) ==
  /\ (hasAttendance(actor.id) /\ raisesAlert(rq)) => Len(att.alerts) < MaxAlerts
  /\ IF ~hasAttendance(actor.id)
     THEN AttAnswer("activity", "rest", actor, rq, "AttendanceNotFound", att)
     ELSE AttAnswer("activity", "rest", actor, rq, "ok", applyActivity(att, rq))

\* services/analyticsService.js recordStudentActivity
recordStudentActivity(actor, rq) ==
  /\ (hasAttendance(actor.id) /\ raisesAlert(rq)) => Len(att.alerts) < MaxAlerts
  /\ IF ~hasAttendance(actor.id)
     THEN AttAnswer("activity", "service", actor, rq, "AttendanceNotFound", att)
     ELSE AttAnswer("activity", "service", actor, rq, "ok",
                    applyActivity(att, rq))

\* reported positions: metres north of the equator on one meridian
Points == { [lat |-> 0, lng |-> 77], [lat |-> 2000, lng |-> 77],
            [lat |-> 2050, lng |-> 77], [lat |-> 2500, lng |-> 77] }

\* attendanceSchema.methods.calculateDistance, in metres, for two points of
\* one meridian
calculateDistance(p, q) ==
  IF p.lat >= q.lat THEN p.lat - q.lat ELSE q.lat - p.lat

\* attendanceSchema.methods.updateLocation.  previousLocation is read from
\* this.location before the assignment; it is the document's accessor of
\* the nested path, so its fields give either the values held before the
\* assignment or the ones just assigned (live): both are modelled.  With an
\* alert the method saves twice without awaiting the first save.
updateLocation(d, p, live) ==
  LET previousLocation == IF live THEN [held |-> TRUE, at |-> p]
                          ELSE [held |-> d.location.held, at |-> d.location.at]
      d1 == [d EXCEPT !.location = [held |-> TRUE, at |-> p, isVerified |-> TRUE]]
      truthy == /\ previousLocation.held
                /\ previousLocation.at.lat # 0
                /\ previousLocation.at.lng # 0
      distance == calculateDistance(previousLocation.at, p)
  IN IF truthy /\ distance > 100
     THEN preSaveAttendance(
            addAlert(d1, "location_change",
                     IF distance > 1000 THEN "high" ELSE "medium"))
     ELSE preSaveAttendance(d1)

\* the location update would push an alert
locationAlert(d, p, live) ==
  Len(updateLocation(d, p, live).alerts) > Len(d.alerts)

\* controllers/attendanceController.js updateLocation
Ctrl_updateLocation(actor, p, live) ==
  IF ~hasAttendance(actor.id)
  THEN IF ~isEnrolledOn(session.students, actor.id)
       THEN AttAnswer("location", "rest", actor, p, "NotEnrolled", att)
       ELSE AttAnswer("location", "rest", actor, p, "ok",
                      updateLocation(NewAttendance(now, TRUE), p, live))
  ELSE /\ locationAlert(att, p, live) => Len(att.alerts) < MaxAlerts
       /\ \E res \in IF locationAlert(att, p, live)
                     THEN {"ok", "ServerError"} ELSE {"ok"} :
            AttAnswer("location", "rest", actor, p, res,
                      updateLocation(att, p, live))

\* socket/monitoringHandlers.js location_update
Socket_location_update(actor, p, live) ==
  IF ~hasAttendance(actor.id)
  THEN AttAnswer("location", "socket", actor, p, "AttendanceNotFound", att)
  ELSE /\ locationAlert(att, p, live) => Len(att.alerts) < MaxAlerts
       /\ \E res \in IF locationAlert(att, p, live)
                     THEN {"ok", "ServerError"} ELSE {"ok"} :
            AttAnswer("location", "socket", actor, p, res,
                      updateLocation(att, p, live))

\* ---------------------------------------------------------------- alert resolution
\* alertId of a request: the position the alert was pushed at, or an id
\* no alert has
AlertIds == 1..(MaxAlerts + 1)

\* req.body.resolution: absent, or a note
Resolutions == {"none", "checked"}

\* controllers/attendanceController.js resolveAlert on the record that
\* holds the alert: the three fields, the resolution when the body has
\* one, then attendance.save()
resolveAlert(d, alertId, userId, resolution, t) ==
  LET alert == [d.alerts[alertId] EXCEPT !.isResolved = TRUE,
                                        !.resolvedAt = t,
                                        !.resolvedBy = userId]
      noted == IF resolution # "none"
               THEN [alert EXCEPT !.additionalData.resolution = resolution]
               ELSE alert
  IN preSaveAttendance([d EXCEPT !.alerts[alertId] = noted])

\* Attendance.findOne({ session, 'alerts._id': alertId }), then
\* attendance.alerts.id(alertId)
Ctrl_resolveAlert(actor, alertId, resolution) ==
  IF ~att.exists \/ alertId > Len(att.alerts)
  THEN AttAnswer("resolve", "rest", actor, alertId, "AlertNotFound", att)
  ELSE AttAnswer("resolve", "rest", actor, alertId, "ok",
                 resolveAlert(att, alertId, actor.id, resolution, now))

\* engagement updates taken in the model
MaxEngagements == 2

\* attendance.updateEngagement(type, 1) of a handler that found the record
Model_updateEngagement(actor, type) ==
  /\ hasAttendance(actor.id)
  /\ att.engagement.pollsParticipated < MaxEngagements
  /\ AttAnswer("engagement", "model", actor, type, "ok",
               updateEngagement(att, type, 1))

\* ---------------------------------------------------------------- Poll model
NumOptions == 2
PollId == "poll1"
PollIds == {"poll1", "nopoll"}
\* s1 is on the roster, s2 is not; the faculty votes without being on it
Voters == { [id |-> "s1", role |-> "student"],
            [id |-> "s2", role |-> "student"],
            [id |-> "f1", role |-> "faculty"] }
OptionInputs == (0 - 1)..NumOptions
\* request texts as character sequences
TextInputs == { <<" ">>, <<"a">>, <<" ", "b", " ">> }
\* request bodies: an optionIndex without text, or a text without optionIndex
\* (optionIndex undefined is NULL)
Bodies == { [oi |-> i, text |-> <<>>] : i \in OptionInputs }
          \cup { [oi |-> NULL, text |-> x] : x \in TextInputs }
\* vote requests: every body on the poll, one request on an unknown poll id
VoteRequests == { [pid |-> PollId, body |-> b] : b \in Bodies }
                \cup { [pid |-> "nopoll", body |-> [oi |-> 0, text |-> <<>>]] }

\* String.prototype.trim
RECURSIVE trimLeft(_)
trimLeft(str) ==
  IF str # <<>> /\ Head(str) = " " THEN trimLeft(Tail(str)) ELSE str

RECURSIVE trimRight(_)
trimRight(str) ==
  IF str # <<>> /\ str[Len(str)] = " "
  THEN trimRight(SubSeq(str, 1, Len(str) - 1)) ELSE str

trim(str) == trimRight(trimLeft(str))

RECURSIVE sumVotes(_)
sumVotes(opts) ==
  IF opts = <<>> THEN 0 ELSE Head(opts).votes + sumVotes(Tail(opts))

\* a hook that leaves the stored totals as they were
preSavePoll_stale(d) == d

\* pollSchema.pre('save')
preSavePoll(d) ==
  [d EXCEPT !.results = [ totalVotes |-> sumVotes(d.options),
                          totalTextResponses |-> Len(d.textResponses) ]]

\* a scan that looks at the first option only
hasVoted_firstOption(d, u) ==
  /\ Len(d.options) > 0
  /\ \E j \in 1..Len(d.options[1].voters) : d.options[1].voters[j].user = u

\* options.some(opt => opt.voters.some(v => v.user.equals(u)))
hasVoted(d, u) ==
  \E i \in 1..Len(d.options) :
    \E j \in 1..Len(d.options[i].voters) : d.options[i].voters[j].user = u

\* a revote that recounts but keeps the earlier vote
removeVotes_keep(d, u) ==
  [d EXCEPT !.options = [i \in 1..Len(d.options) |->
     [voters |-> d.options[i].voters, votes |-> Len(d.options[i].voters)]]]

\* options.forEach(opt => { opt.voters = opt.voters.filter(...); opt.votes = ... })
removeVotes(d, u) ==
  [d EXCEPT !.options = [i \in 1..Len(d.options) |->
     LET kept == SelectSeq(d.options[i].voters, LAMBDA v : v.user # u)
     IN [voters |-> kept, votes |-> Len(kept)]]]

\* a push that replaces the option's voters by the new vote alone
pushVote_replace(d, oi, u, t) ==
  [d EXCEPT !.options[oi + 1] =
     [voters |-> <<[user |-> u, votedAt |-> t]>>, votes |-> 1]]

\* options[optionIndex].voters.push(...); options[optionIndex].votes = length
pushVote(d, oi, u, t) ==
  LET grown == Append(d.options[oi + 1].voters, [user |-> u, votedAt |-> t])
  IN [d EXCEPT !.options[oi + 1] = [voters |-> grown, votes |-> Len(grown)]]

\* textResponses.find(r => r.user.equals(u)): index of the first, 0 if none
findResponse(d, u) ==
  IF \E i \in 1..Len(d.textResponses) : d.textResponses[i].user = u
  THEN CHOOSE i \in 1..Len(d.textResponses) :
         /\ d.textResponses[i].user = u
         /\ \A j \in 1..(i-1) : d.textResponses[j].user # u
  ELSE 0

\* an expiry test that also refuses the instant expiresAt itself
isExpired_inclusive(d, t) == d.expiresAt # NULL /\ t >= d.expiresAt

\* poll.expiresAt && new Date() > poll.expiresAt
isExpired(d, t) == d.expiresAt # NULL /\ t > d.expiresAt

\* poll.save() of a handler that runs alone: the stored document becomes
\* the handler's copy
savePoll(db, d) == d

\* a save of overlapping requests that counts the stored responses again
\* instead of sending the copy's count
saveVote_recount(db, base, d) ==
  IF d.type = "text_response"
  THEN LET all == db.textResponses \o SubSeq(d.textResponses,
                                             Len(base.textResponses) + 1,
                                             Len(d.textResponses))
       IN [ok |-> TRUE,
           doc |-> [db EXCEPT !.textResponses = all,
                              !.results.totalTextResponses = Len(all),
                              !.version = @ + 1]]
  ELSE IF base.version # db.version
  THEN [ok |-> FALSE, doc |-> db]
  ELSE [ok |-> TRUE, doc |-> [d EXCEPT !.version = db.version + 1]]

\* a save of overlapping requests that sends every push as an append and
\* sets no condition on the version
saveVote_unconditional(db, base, d) ==
  IF d.type = "text_response"
  THEN [ok |-> TRUE,
        doc |-> [db EXCEPT
           !.textResponses = @ \o SubSeq(d.textResponses,
                                         Len(base.textResponses) + 1,
                                         Len(d.textResponses)),
           !.results = d.results,
           !.version = @ + 1]]
  ELSE [ok |-> TRUE,
        doc |-> [d EXCEPT
           !.options = [i \in 1..Len(d.options) |->
              LET merged == db.options[i].voters \o
                     SelectSeq(d.options[i].voters,
                        LAMBDA v : \A j \in 1..Len(db.options[i].voters) :
                                      db.options[i].voters[j] # v)
              IN [voters |-> merged, votes |-> Len(merged)]],
           !.version = db.version + 1]]

\* poll.save() of a request whose copy `base` was loaded while other
\* requests were in flight; d is the copy after the handler's changes and
\* db the stored document.
\*  - textResponses.push(..) is sent as a push on the top-level array: it
\*    is appended to whatever is stored and the version is incremented,
\*    with no condition; results.totalTextResponses is set to the copy's
\*    count.
\*  - existingResponse.response = .. changes an element of an array: the
\*    update is conditioned on the loaded version.
\*  - options[i].voters.push(..), options[i].voters = .., options[i].votes
\*    = .. change an element of the options array: the update is
\*    conditioned on the loaded version and increments it.
\* A condition that fails makes save() throw (VersionError).
saveVote(db, base, d) ==
  IF d.type = "text_response"
  THEN IF Len(d.textResponses) > Len(base.textResponses)
       THEN [ok |-> TRUE,
             doc |-> [db EXCEPT
                !.textResponses = @ \o SubSeq(d.textResponses,
                                              Len(base.textResponses) + 1,
                                              Len(d.textResponses)),
                !.results = d.results,
                !.version = @ + 1]]
       ELSE IF base.version # db.version
       THEN [ok |-> FALSE, doc |-> db]
       ELSE [ok |-> TRUE,
             doc |-> [db EXCEPT
                !.textResponses = [k \in 1..Len(db.textResponses) |->
                   IF d.textResponses[k] # base.textResponses[k]
                   THEN d.textResponses[k] ELSE db.textResponses[k]]]]
  ELSE IF base.version # db.version
  THEN [ok |-> FALSE, doc |-> db]
  ELSE [ok |-> TRUE, doc |-> [d EXCEPT !.version = db.version + 1]]

\* a roster test that finds everyone
isEnrolled_anyone(roster, u) == TRUE

isEnrolled(roster, u) == \E i \in 1..Len(roster) : roster[i].student = u

Rejected(res, d) == [res |-> res, doc |-> d, saved |-> FALSE]
Saved(d) == [res |-> "ok", doc |-> preSavePoll(d), saved |-> TRUE]

\* controllers/pollController.js votePoll (and the same handler inlined in
\* routes/polls.js): the checks and the mutation made on the loaded
\* document d, up to and including poll.save()
votePoll(found, d, roster, actor, oi, text, t) ==
  IF ~found THEN Rejected("PollNotFound", d)
  ELSE IF ~d.isActive THEN Rejected("PollInactive", d)
  ELSE IF isExpired(d, t) THEN Rejected("PollExpired", d)
  ELSE IF ~isEnrolled(roster, actor.id) /\ actor.role = "student"
  THEN Rejected("NotEnrolled", d)
  ELSE IF d.type = "text_response"
  THEN IF Len(trim(text)) = 0 THEN Rejected("TextRequired", d)
       ELSE LET k == findResponse(d, actor.id) IN
            IF k # 0 /\ ~d.settings.allowChangeVote
            THEN Rejected("AlreadyResponded", d)
            ELSE IF k # 0 /\ d.settings.allowChangeVote
            THEN Saved([d EXCEPT !.textResponses[k].response = trim(text),
                                 !.textResponses[k].submittedAt = t])
            ELSE Saved([d EXCEPT !.textResponses = Append(@,
                          [user |-> actor.id, response |-> trim(text),
                           submittedAt |-> t])])
  ELSE IF oi = NULL \/ oi < 0 \/ oi >= Len(d.options)
  THEN Rejected("InvalidOption", d)
  ELSE IF hasVoted(d, actor.id) /\ ~d.settings.allowChangeVote
  THEN Rejected("AlreadyVoted", d)
  ELSE IF hasVoted(d, actor.id) /\ d.settings.allowChangeVote
  THEN Saved(pushVote(removeVotes(d, actor.id), oi, actor.id, t))
  ELSE Saved(pushVote(d, oi, actor.id, t))

\* socket/pollHandlers.js poll_vote, up to and including poll.save()
poll_vote(found, d, roster, actor, oi, text, t) ==
  IF ~found THEN Rejected("PollNotFound", d)
  ELSE IF ~d.isActive \/ (d.expiresAt # NULL /\ d.expiresAt < t)
  THEN Rejected("PollInactiveOrExpired", d)
  ELSE IF ~isEnrolled(roster, actor.id) /\ actor.role = "student"
  THEN Rejected("NotEnrolled", d)
  ELSE IF d.type = "text_response"
  THEN IF Len(trim(text)) = 0 THEN Rejected("TextRequired", d)
       ELSE LET k == findResponse(d, actor.id) IN
            IF k # 0 /\ ~d.settings.allowChangeVote
            THEN Rejected("AlreadyResponded", d)
            ELSE IF k # 0
            THEN Saved([d EXCEPT !.textResponses[k].response = trim(text),
                                 !.textResponses[k].submittedAt = t])
            ELSE Saved([d EXCEPT !.textResponses = Append(@,
                          [user |-> actor.id, response |-> trim(text),
                           submittedAt |-> t])])
  ELSE IF oi = NULL \/ oi < 0 \/ oi >= Len(d.options)
  THEN Rejected("InvalidOption", d)
  ELSE IF hasVoted(d, actor.id) /\ ~d.settings.allowChangeVote
  THEN Rejected("AlreadyVoted", d)
  ELSE IF hasVoted(d, actor.id)
  THEN Saved(pushVote(removeVotes(d, actor.id), oi, actor.id, t))
  ELSE Saved(pushVote(d, oi, actor.id, t))

\* models/Poll.js pollSchema.methods.addVote (throws instead of answering)
addVote(d, u, oi, t) ==
  IF ~d.isActive \/ isExpired(d, t)
  THEN Rejected("PollInactive", d)
  ELSE IF oi < 0 \/ oi >= Len(d.options) THEN Rejected("InvalidOption", d)
  ELSE IF hasVoted(d, u) /\ ~d.settings.allowChangeVote
  THEN Rejected("AlreadyVoted", d)
  ELSE IF hasVoted(d, u) /\ d.settings.allowChangeVote
  THEN Saved(pushVote(removeVotes(d, u), oi, u, t))
  ELSE Saved(pushVote(d, oi, u, t))

\* models/Poll.js pollSchema.methods.close
close(d, t) == preSavePoll([d EXCEPT !.isActive = FALSE, !.closedAt = t])

\* a poll as createPoll persists it
NewPoll(type, allowChangeVote, expiresAt) ==
  [ type |-> type, isActive |-> TRUE, expiresAt |-> expiresAt,
    closedAt |-> NULL,
    isAnonymous |-> FALSE,
    settings |-> [allowChangeVote |-> allowChangeVote,
                  showResults |-> "after_vote"],
    options |-> IF type = "text_response" THEN <<>>
                ELSE [i \in 1..NumOptions |-> [voters |-> <<>>, votes |-> 0]],
    textResponses |-> <<>>,
    results |-> [totalVotes |-> 0, totalTextResponses |-> 0],
    version |-> 0 ]

\* ---------------------------------------------------------------- poll operations
PollAnswer(op, entry, actor, oi, out) ==
  /\ poll' = IF out.saved THEN savePoll(poll, out.doc) ELSE poll
  /\ pollRes' = [op |-> op, entry |-> entry, actor |-> actor,
                 oi |-> oi, res |-> out.res,
                 prior |-> (hasVoted(poll, actor.id)
                              \/ findResponse(poll, actor.id) # 0)]
  /\ resBody' = NoBody
  /\ emitted' = <<>>
  /\ UNCHANGED <<msg, chatRes, sessions>>
  /\ UNCHANGED <<now, session, everLive, sessRes, reqs, att, attRes>>

\* the room of the session's participants
SessionRoom == "session-sess1"

\* updatedPollResults / updatedPollData: the poll_updated payload built from
\* the handler's poll after the save (an option's text stands for itself as
\* the option's position); the REST payload names the response total
\* totalTextResponses, the socket payload totalResponses
updatedPollData_filtered(entry, d) ==
  [ room |-> SessionRoom, event |-> "poll_updated",
    options |-> [i \in 1..Len(d.options) |->
                   [text |-> i,
                    votes |-> IF d.settings.showResults = "never" THEN 0
                              ELSE d.options[i].votes]],
    totalVotes |-> sumVotes(d.options),
    responsesField |-> IF entry = "rest" THEN "totalTextResponses"
                       ELSE "totalResponses",
    totalResponses |-> Len(d.textResponses) ]

updatedPollData(entry, d) ==
  [ room |-> SessionRoom, event |-> "poll_updated",
    options |-> [i \in 1..Len(d.options) |->
                   [text |-> i, votes |-> d.options[i].votes]],
    totalVotes |-> sumVotes(d.options),
    responsesField |-> IF entry = "rest" THEN "totalTextResponses"
                       ELSE "totalResponses",
    totalResponses |-> Len(d.textResponses) ]

\* what follows poll.save() in both vote handlers, inside the same try:
\* the Attendance engagement update, then the poll_updated broadcast.
\* fail names the step that throws ("none", "attendance", "broadcast");
\* catch answers next(error) on REST and { error } on the socket
Failures == {"none", "attendance", "broadcast"}

VoteAnswer(entry, actor, oi, out, fail) ==
  LET attThrows == out.saved /\ fail = "attendance"
      emitThrows == out.saved /\ fail = "broadcast"
      engaged == out.saved /\ ~attThrows /\ hasAttendance(actor.id)
  IN /\ poll' = IF out.saved THEN savePoll(poll, out.doc) ELSE poll
     /\ att' = IF engaged THEN updateEngagement(att, "poll", 1) ELSE att
     /\ pollRes' = [op |-> "vote", entry |-> entry, actor |-> actor,
                    oi |-> oi,
                    res |-> IF attThrows \/ emitThrows
                            THEN IF entry = "rest" THEN "ServerError"
                                 ELSE "VoteFailed"
                            ELSE out.res,
                    prior |-> (hasVoted(poll, actor.id)
                                 \/ findResponse(poll, actor.id) # 0)]
     /\ resBody' = NoBody
     /\ emitted' = IF out.saved /\ ~attThrows /\ ~emitThrows
                   THEN <<updatedPollData(entry, out.doc)>> ELSE <<>>
     /\ UNCHANGED <<msg, chatRes, sessions>>
     /\ UNCHANGED <<now, session, everLive, sessRes, reqs, attRes>>

Rest_votePoll(actor, pid, oi, text, fail) ==
  VoteAnswer("rest", actor, oi,
             votePoll(pid = PollId, poll, session.students, actor, oi, text, now),
             fail)

Socket_poll_vote(actor, pid, oi, text, fail) ==
  VoteAnswer("socket", actor, oi,
             poll_vote(pid = PollId, poll, session.students, actor, oi, text, now),
             fail)

Model_addVote(actor, oi) ==
  PollAnswer("vote", "model", actor, oi, addVote(poll, actor.id, oi, now))

\* controllers/pollController.js closePoll behind PATCH /:pollId/close
Ctrl_closePoll(actor, pid) ==
  IF ~requireRole(actor, {"faculty", "admin"})
  THEN PollAnswer("close", "rest", actor, NULL, Rejected("PermissionDenied", poll))
  ELSE IF pid # PollId
  THEN PollAnswer("close", "rest", actor, NULL, Rejected("PollNotFound", poll))
  ELSE IF actor.role = "faculty" /\ ~isOwner(actor)
  THEN PollAnswer("close", "rest", actor, NULL, Rejected("PermissionDenied", poll))
  ELSE IF ~poll.isActive
  THEN PollAnswer("close", "rest", actor, NULL, Rejected("AlreadyClosed", poll))
  ELSE PollAnswer("close", "rest", actor, NULL,
                  [res |-> "ok", doc |-> close(poll, now), saved |-> TRUE])

\* controllers/pollController.js getPollById: the poll object of the
\* response built for the reader (a field the response omits is not shown)
pollResponse(d, actor) ==
  LET canSeeResults ==
        \/ actor.role # "student"
        \/ d.settings.showResults = "real_time"
        \/ (d.settings.showResults = "after_vote" /\ hasVoted(d, actor.id))
        \/ (d.settings.showResults = "after_close" /\ ~d.isActive)
      withVoters == canSeeResults /\ actor.role # "student" /\ ~d.isAnonymous
  IN [ kind |-> "poll",
       type |-> d.type, isActive |-> d.isActive,
       isAnonymous |-> d.isAnonymous, settings |-> d.settings,
       expiresAt |-> d.expiresAt, closedAt |-> d.closedAt,
       results |-> d.results,
       options |-> [i \in 1..Len(d.options) |->
          [ votes |-> IF canSeeResults THEN d.options[i].votes
                      ELSE IF d.settings.showResults = "never" THEN 0
                      ELSE d.options[i].votes,
            votersShown |-> withVoters,
            voters |-> IF withVoters THEN d.options[i].voters ELSE <<>> ]],
       textResponsesShown |-> (canSeeResults /\ d.type = "text_response"),
       textResponses |->
          IF canSeeResults /\ d.type = "text_response"
          THEN IF actor.role = "student" /\ d.isAnonymous
               THEN SelectSeq(d.textResponses, LAMBDA r : r.user = actor.id)
               ELSE d.textResponses
          ELSE <<>> ]

\* controllers/pollController.js getPollById behind GET /:pollId
Rest_getPollById(actor, pid) ==
  LET hasAccess ==
        \/ actor.role = "admin"
        \/ (actor.role = "faculty" /\ isOwner(actor))
        \/ (actor.role = "student" /\ isEnrolled(session.students, actor.id))
      res == IF pid # PollId THEN "PollNotFound"
             ELSE IF ~hasAccess THEN "AccessDenied"
             ELSE "ok"
  IN /\ pollRes' = [op |-> "read", entry |-> "rest", actor |-> actor,
                    oi |-> NULL, res |-> res, prior |-> hasVoted(poll, actor.id)]
     /\ resBody' = IF res = "ok" THEN pollResponse(poll, actor) ELSE NoBody
     /\ emitted' = <<>>
     /\ UNCHANGED <<msg, chatRes, sessions>>
     /\ UNCHANGED <<now, session, everLive, sessRes, poll, reqs, att, attRes>>

\* ---------------------------------------------------------------- ChatMessage model
MsgId == "msg1"
MsgIds == {"msg1", "nomsg"}
Emojis == {"up", "heart"}
ChatUsers == { [id |-> "s1", role |-> "student"],
               [id |-> "s2", role |-> "student"],
               [id |-> "f1", role |-> "faculty"] }

\* a message as send_message persists it
NewMessage(sender, text, t) ==
  [ exists |-> TRUE, sender |-> sender, message |-> trim(text),
    originalMessage |-> <<>>, isEdited |-> FALSE, editedAt |-> NULL,
    isDeleted |-> FALSE, deletedAt |-> NULL, deletedBy |-> "none",
    reactions |-> <<>>, timestamp |-> t ]

\* this.reactions.find(r => r.emoji === emoji): position of the entry, 0 if none
findReaction(d, emoji) ==
  IF \E i \in 1..Len(d.reactions) : d.reactions[i].emoji = emoji
  THEN CHOOSE i \in 1..Len(d.reactions) :
         /\ d.reactions[i].emoji = emoji
         /\ \A j \in 1..(i - 1) : d.reactions[j].emoji # emoji
  ELSE 0

\* reaction.users.includes(userId)
includes(users, u) == \E i \in 1..Len(users) : users[i] = u

\* chatMessageSchema.methods.addReaction, save included.  For an emoji that
\* has no entry the method pushes a fresh object onto this.reactions and
\* goes on to update that object; the array stores its own cast of what was
\* pushed, so the update reaches the stored entry only if the two are the
\* same object (linked)
addReaction(d, u, emoji, linked) ==
  LET k == findReaction(d, emoji) IN
  IF k = 0
  THEN [d EXCEPT !.reactions =
          Append(@, IF linked
                    THEN [emoji |-> emoji, users |-> <<u>>, count |-> 1]
                    ELSE [emoji |-> emoji, users |-> <<>>, count |-> 0])]
  ELSE IF ~includes(d.reactions[k].users, u)
  THEN LET grown == Append(d.reactions[k].users, u)
       IN [d EXCEPT !.reactions[k].users = grown,
                    !.reactions[k].count = Len(grown)]
  ELSE d

\* chatMessageSchema.methods.removeReaction, save included
removeReaction(d, u, emoji) ==
  LET k == findReaction(d, emoji) IN
  IF k = 0 THEN d
  ELSE LET kept == SelectSeq(d.reactions[k].users, LAMBDA id : id # u)
           d1 == [d EXCEPT !.reactions[k].users = kept,
                           !.reactions[k].count = Len(kept)]
       IN IF Len(kept) = 0
          THEN [d1 EXCEPT !.reactions =
                  SelectSeq(d1.reactions, LAMBDA r : r.emoji # emoji)]
          ELSE d1

\* ---------------------------------------------------------------- chat operations
\* every chat operation records what it answered, what it was asked and
\* the users the named emoji had before it
ChatAnswer(op, entry, actor, arg, res, d) ==
  /\ msg' = d
  /\ chatRes' = [op |-> op, entry |-> entry, actor |-> actor, res |-> res,
                 arg |-> arg,
                 prior |-> IF op \in {"add_reaction", "remove_reaction"}
                              /\ msg.exists /\ findReaction(msg, arg) # 0
                           THEN msg.reactions[findReaction(msg, arg)].users
                           ELSE <<>>]
  /\ resBody' = NoBody
  /\ emitted' = <<>>
  /\ UNCHANGED <<now, session, everLive, sessRes, poll, pollRes, reqs,
                 att, attRes, sessions>>

\* ChatMessage.findById(messageId)
findMessage(mid) == mid = MsgId /\ msg.exists

\* controller addReaction and socket add_reaction
AddReaction(entry, actor, mid, emoji, linked) ==
  IF ~findMessage(mid)
  THEN ChatAnswer("add_reaction", entry, actor, emoji, "MessageNotFound", msg)
  ELSE ChatAnswer("add_reaction", entry, actor, emoji, "ok",
                  addReaction(msg, actor.id, emoji, linked))

\* controller removeReaction and socket remove_reaction
RemoveReaction(entry, actor, mid, emoji) ==
  IF ~findMessage(mid)
  THEN ChatAnswer("remove_reaction", entry, actor, emoji, "MessageNotFound", msg)
  ELSE ChatAnswer("remove_reaction", entry, actor, emoji, "ok",
                  removeReaction(msg, actor.id, emoji))

\* a sender test that passes everyone
isSender_anyone(d, u) == TRUE

\* chatMessage.sender.equals(userId)
isSender(d, u) == d.sender = u

\* what the catch of an entry point answers when a step threw
Thrown(entry, op) == IF entry = "rest" THEN "ServerError" ELSE op \o "_failed"

\* controller editMessage and socket edit_message; the schema requires a
\* non-empty message, so save rejects a text that trims to nothing
EditMessage(entry, actor, mid, newMessage) ==
  IF ~findMessage(mid)
  THEN ChatAnswer("edit", entry, actor, newMessage, "MessageNotFound", msg)
  ELSE IF ~isSender(msg, actor.id)
  THEN ChatAnswer("edit", entry, actor, newMessage, "PermissionDenied", msg)
  ELSE IF Len(trim(newMessage)) = 0
  THEN ChatAnswer("edit", entry, actor, newMessage, Thrown(entry, "edit"), msg)
  ELSE ChatAnswer("edit", entry, actor, newMessage, "ok",
                  [msg EXCEPT !.originalMessage = msg.message,
                              !.message = trim(newMessage),
                              !.isEdited = TRUE,
                              !.editedAt = now])

\* controller deleteMessage and socket delete_message
DeleteMessage(entry, actor, mid) ==
  IF ~findMessage(mid)
  THEN ChatAnswer("delete", entry, actor, <<>>, "MessageNotFound", msg)
  ELSE IF ~isSender(msg, actor.id)
  THEN ChatAnswer("delete", entry, actor, <<>>, "PermissionDenied", msg)
  ELSE ChatAnswer("delete", entry, actor, <<>>, "ok",
                  [msg EXCEPT !.isDeleted = TRUE,
                              !.deletedAt = now,
                              !.deletedBy = actor.id])

\* ---------------------------------------------------------------- overlapping vote requests
MaxReq == 2
ReqIds == 1..MaxReq

\* the requests that overlap: enrolled students; a body names an option
\* and may carry a text response
ConcVoters == { [id |-> "s1", role |-> "student"],
                [id |-> "s2", role |-> "student"] }
ConcBodies == { [oi |-> 0, text |-> <<>>], [oi |-> 1, text |-> <<"a">>] }

IdleReq == [pc |-> "idle", entry |-> "none",
            actor |-> [id |-> "none", role |-> "none"],
            oi |-> NULL, text |-> <<>>, found |-> FALSE,
            doc |-> NewPoll("single_choice", FALSE, NULL), res |-> "none"]

\* Poll.findById(pollId).populate('session'): the request takes its copy
\* (request ids are handed out in order of arrival)
LoadVote(r, entry, actor, pid, oi, text) ==
  /\ reqs[r].pc = "idle"
  /\ \A q \in 1..(r-1) : reqs[q].pc # "idle"
  /\ reqs' = [reqs EXCEPT ![r] =
        [pc |-> "loaded", entry |-> entry, actor |-> actor, oi |-> oi,
         text |-> text, found |-> (pid = PollId), doc |-> poll,
         res |-> "none"]]
  /\ emitted' = <<>>
  /\ UNCHANGED <<msg, chatRes, sessions>>
  /\ UNCHANGED <<now, session, everLive, sessRes, poll, pollRes,
                 resBody, att, attRes>>

\* the rest of the handler: checks and mutation on the copy, then save;
\* a save that throws is answered by the catch block and nothing is
\* published
FinishVote(r) ==
  /\ reqs[r].pc = "loaded"
  /\ LET q == reqs[r]
         out == IF q.entry = "rest"
                THEN votePoll(q.found, q.doc, session.students, q.actor,
                              q.oi, q.text, now)
                ELSE poll_vote(q.found, q.doc, session.students, q.actor,
                               q.oi, q.text, now)
         w == IF out.saved THEN saveVote(poll, q.doc, out.doc)
              ELSE [ok |-> FALSE, doc |-> poll]
     IN /\ poll' = w.doc
        /\ reqs' = [reqs EXCEPT ![r] =
              [q EXCEPT !.pc = "done",
                        !.res = IF out.saved /\ ~w.ok
                                THEN IF q.entry = "rest" THEN "ServerError"
                                     ELSE "VoteFailed"
                                ELSE out.res]]
        /\ emitted' = IF out.saved /\ w.ok
                      THEN <<updatedPollData(q.entry, out.doc)>>
                      ELSE <<>>
        /\ UNCHANGED <<msg, chatRes, sessions>>
  /\ UNCHANGED <<now, session, everLive, sessRes, pollRes,
                 resBody, att, attRes>>

\* the clock moves between requests
Tick ==
  /\ now < MaxTime
  /\ now' = now + 1
  /\ sessRes' = NoAnswer
  /\ pollRes' = NoAnswer @@ [oi |-> NULL, prior |-> FALSE]
  /\ resBody' = NoBody
  /\ attRes' = NoAnswer
  /\ emitted' = <<>>
  /\ chatRes' = NoAnswer
  /\ UNCHANGED <<msg, sessions>>
  /\ UNCHANGED <<session, everLive, poll, reqs, att>>

\* ---------------------------------------------------------------- specifications
NoPollAnswer == NoAnswer @@ [oi |-> NULL, prior |-> FALSE]

SessionInit ==
  /\ now = 1
  /\ session = NewSession(<<RosterEntry("s1")>>)
  /\ everLive = FALSE
  /\ sessRes = NoAnswer
  /\ poll = NewPoll("single_choice", FALSE, NULL)
  /\ pollRes = NoPollAnswer
  /\ resBody = NoBody
  /\ att = NoAttendance
  /\ attRes = NoAnswer
  /\ emitted = <<>>
  /\ msg = NoMessage
  /\ chatRes = NoAnswer
  /\ sessions = <<>>
  /\ reqs = <<>>

SessionNext ==
  \/ \E a \in Actors : Ctrl_startSession(a)
  \/ \E a \in Actors : Ctrl_endSession(a)
  \/ \E a \in Actors, act \in {"pause", "resume"} :
        Ctrl_pauseResumeSession(a, act)
  \/ \E a \in Actors : Ctrl_deleteSession(a)
  \/ \E a \in Actors, act \in {"start", "end", "pause", "resume", "restart"} :
        session_control(a, act)
  \/ \E s \in Students : MarkJoined(s)
  \/ \E s \in Students : MarkLeft(s)
  \/ Tick

SessionSpec == SessionInit /\ [][SessionNext]_vars

PollInit ==
  /\ now = 1
  /\ session = NewSession(<<RosterEntry("s1")>>)
  /\ everLive = FALSE
  /\ sessRes = NoAnswer
  /\ \E type \in {"single_choice", "text_response"}, acv \in BOOLEAN,
        exp \in {NULL, 1} : poll = NewPoll(type, acv, exp)
  /\ pollRes = NoPollAnswer
  /\ resBody = NoBody
  /\ att = NoAttendance
  /\ attRes = NoAnswer
  /\ emitted = <<>>
  /\ msg = NoMessage
  /\ chatRes = NoAnswer
  /\ sessions = <<>>
  /\ reqs = <<>>

PollNext ==
  \/ \E a \in Voters, rq \in VoteRequests :
        Rest_votePoll(a, rq.pid, rq.body.oi, rq.body.text, "none")
  \/ \E a \in Voters, rq \in VoteRequests :
        Socket_poll_vote(a, rq.pid, rq.body.oi, rq.body.text, "none")
  \/ \E a \in Voters, oi \in OptionInputs :
        (isEnrolled(session.students, a.id) \/ a.role # "student")
          /\ Model_addVote(a, oi)
  \/ \E a \in Actors, pid \in PollIds : Ctrl_closePoll(a, pid)
  \/ Tick

PollSpec == PollInit /\ [][PollNext]_vars

\* overlapping votes on a fresh poll; s1 and s2 are enrolled
PollConcInit ==
  /\ now = 1
  /\ session = NewSession(<<RosterEntry("s1"), RosterEntry("s2")>>)
  /\ everLive = FALSE
  /\ sessRes = NoAnswer
  /\ \E type \in {"single_choice", "text_response"}, acv \in BOOLEAN,
        exp \in {NULL, 1} : poll = NewPoll(type, acv, exp)
  /\ pollRes = NoPollAnswer
  /\ resBody = NoBody
  /\ att = NoAttendance
  /\ attRes = NoAnswer
  /\ emitted = <<>>
  /\ msg = NoMessage
  /\ chatRes = NoAnswer
  /\ sessions = <<>>
  /\ reqs = [r \in ReqIds |-> IdleReq]

PollConcNext ==
  \/ \E r \in ReqIds, e \in {"rest", "socket"}, a \in ConcVoters,
        b \in ConcBodies :
        LoadVote(r, e, a, PollId, b.oi, b.text)
  \/ \E r \in ReqIds : FinishVote(r)
  \/ Tick

PollConcSpec == PollConcInit /\ [][PollConcNext]_vars

\* enroll requests one after the other, through the controller and through
\* the route's own handler
EnrollInit ==
  /\ now = 1
  /\ \E roster \in {<<>>, <<RosterEntry("s1")>>} : session = NewSession(roster)
  /\ everLive = FALSE
  /\ sessRes = NoAnswer
  /\ poll = NewPoll("single_choice", FALSE, NULL)
  /\ pollRes = NoPollAnswer
  /\ resBody = NoBody
  /\ att = NoAttendance
  /\ attRes = NoAnswer
  /\ emitted = <<>>
  /\ msg = NoMessage
  /\ chatRes = NoAnswer
  /\ sessions = <<>>
  /\ reqs = <<>>

EnrollNext ==
  \/ \E a \in Actors, ids \in IdLists : Ctrl_enrollStudents(a, ids)
  \/ \E a \in Actors, ids \in IdLists : Route_enroll(a, ids)
  \/ Tick

EnrollSpec == EnrollInit /\ [][EnrollNext]_vars

\* overlapping enroll requests of the owner on a session with an empty roster
\* or with s1 enrolled
EnrollConcInit ==
  /\ now = 1
  /\ \E roster \in {<<>>, <<RosterEntry("s1")>>} : session = NewSession(roster)
  /\ everLive = FALSE
  /\ sessRes = NoAnswer
  /\ poll = NewPoll("single_choice", FALSE, NULL)
  /\ pollRes = NoPollAnswer
  /\ resBody = NoBody
  /\ att = NoAttendance
  /\ attRes = NoAnswer
  /\ emitted = <<>>
  /\ msg = NoMessage
  /\ chatRes = NoAnswer
  /\ sessions = <<>>
  /\ reqs = [r \in ReqIds |-> IdleEnroll]

EnrollConcNext ==
  \/ \E r \in ReqIds, e \in {"controller", "route"}, ids \in ConcIdLists :
        LoadEnroll(r, e, ids)
  \/ \E r \in ReqIds : StepEnroll(r)

EnrollConcSpec == EnrollConcInit /\ [][EnrollConcNext]_vars

\* joining and leaving while the owner drives the session; the session is
\* new, or was started at time 0, and s1 may have an Attendance record
LateJoinCutoff == 1
Joiners == { [id |-> "s1", role |-> "student"],
             [id |-> "s2", role |-> "student"],
             [id |-> "f1", role |-> "faculty"] }

JoinInit ==
  /\ now = 1
  /\ \E alj \in BOOLEAN, started \in BOOLEAN :
        LET d == [NewSession(<<RosterEntry("s1")>>) EXCEPT
                    !.settings = [allowLateJoin |-> alj,
                                  lateJoinCutoffMinutes |-> LateJoinCutoff]]
        IN session = IF started THEN startSession(d, 0) ELSE d
  /\ everLive = (session.status = "live")
  /\ sessRes = NoAnswer
  /\ poll = NewPoll("single_choice", FALSE, NULL)
  /\ pollRes = NoPollAnswer
  /\ resBody = NoBody
  /\ att \in {NoAttendance, NewAttendance(1, TRUE)}
  /\ attRes = NoAnswer
  /\ emitted = <<>>
  /\ msg = NoMessage
  /\ chatRes = NoAnswer
  /\ sessions = <<>>
  /\ reqs = <<>>

JoinNext ==
  \/ \E a \in Joiners : join_session(a)
  \/ \E a \in Joiners : leave_session(a)
  \/ \E act \in {"start", "end", "pause", "resume"} :
        session_control([id |-> Owner, role |-> "faculty"], act)
  \/ \E s \in Students : MarkJoined(s)
  \/ \E s \in Students : MarkLeft(s)
  \/ Tick

JoinSpec == JoinInit /\ [][JoinNext]_vars

\* activity reports and location updates of s1 (who may have an Attendance
\* record) and of s2 (who has none and is not enrolled)
Reporters == { [id |-> "s1", role |-> "student"],
               [id |-> "s2", role |-> "student"] }

\* s1 has an Attendance record or none
ActivityInit ==
  /\ now = 1
  /\ session = NewSession(<<RosterEntry("s1")>>)
  /\ everLive = FALSE
  /\ sessRes = NoAnswer
  /\ poll = NewPoll("single_choice", FALSE, NULL)
  /\ pollRes = NoPollAnswer
  /\ resBody = NoBody
  /\ att \in {NoAttendance, NewAttendance(1, TRUE)}
  /\ attRes = NoAnswer
  /\ emitted = <<>>
  /\ msg = NoMessage
  /\ chatRes = NoAnswer
  /\ sessions = <<>>
  /\ reqs = <<>>

ActivityNext ==
  \/ \E a \in Reporters, rq \in ActivityReports : reportActivity(a, rq)
  \/ \E a \in Reporters, rq \in ActivityReports : recordStudentActivity(a, rq)

ActivitySpec == ActivityInit /\ [][ActivityNext]_vars

\* every operation that saves the Attendance record of s1, on a new record
\* and on records that have taken many tab_switch reports
\* the record that k tab_switch reports leave behind
afterTabSwitches(k) ==
  preSaveAttendance(
    [NewAttendance(1, TRUE) EXCEPT
       !.alerts = [i \in 1..k |-> Alert("tab_switch", "medium")],
       !.activityMonitoring.tabSwitches = k])

ReportCounts == {0, 15, 16, 25, 26, 35, 36, 51}
SavedReports == { [type |-> ty, connectionLost |-> FALSE] :
                    ty \in {"heartbeat", "tab_switch", "app_switch"} }
SavedPoints == { q \in Points : q.lat \in {0, 2000, 2500} }

RecordInit ==
  /\ now = 1
  /\ session = NewSession(<<RosterEntry("s1")>>)
  /\ everLive = FALSE
  /\ sessRes = NoAnswer
  /\ poll = NewPoll("single_choice", FALSE, NULL)
  /\ pollRes = NoPollAnswer
  /\ resBody = NoBody
  /\ \E k \in ReportCounts : att = afterTabSwitches(k)
  /\ attRes = NoAnswer
  /\ emitted = <<>>
  /\ msg = NoMessage
  /\ chatRes = NoAnswer
  /\ sessions = <<>>
  /\ reqs = <<>>

RecordNext ==
  \/ \E rq \in SavedReports :
        reportActivity([id |-> AttStudent, role |-> "student"], rq)
  \/ \E rq \in SavedReports :
        recordStudentActivity([id |-> AttStudent, role |-> "student"], rq)
  \/ \E p \in SavedPoints, live \in BOOLEAN :
        Ctrl_updateLocation([id |-> AttStudent, role |-> "student"], p, live)
  \/ \E p \in SavedPoints, live \in BOOLEAN :
        Socket_location_update([id |-> AttStudent, role |-> "student"], p, live)
  \/ join_session([id |-> AttStudent, role |-> "student"])
  \/ leave_session([id |-> AttStudent, role |-> "student"])

RecordSpec == RecordInit /\ [][RecordNext]_vars

\* location updates; the first one of s1 through the controller creates
\* the record
LocationInit ==
  /\ now = 1
  /\ session = NewSession(<<RosterEntry("s1")>>)
  /\ everLive = FALSE
  /\ sessRes = NoAnswer
  /\ poll = NewPoll("single_choice", FALSE, NULL)
  /\ pollRes = NoPollAnswer
  /\ resBody = NoBody
  /\ att = NoAttendance
  /\ attRes = NoAnswer
  /\ emitted = <<>>
  /\ msg = NoMessage
  /\ chatRes = NoAnswer
  /\ sessions = <<>>
  /\ reqs = <<>>

LocationNext ==
  \/ \E a \in Reporters, p \in Points, live \in BOOLEAN :
        Ctrl_updateLocation(a, p, live)
  \/ \E a \in Reporters, p \in Points, live \in BOOLEAN :
        Socket_location_update(a, p, live)
  \/ Tick

LocationSpec == LocationInit /\ [][LocationNext]_vars

\* the operations on the Attendance record of s1, from its creation by the
\* first location update on
AlertReports == { [type |-> ty, connectionLost |-> FALSE] :
                    ty \in {"heartbeat", "app_switch"} }
AlertPoints == { q \in Points : q.lat \in {2000, 2500} }
Resolvers == { a \in Actors : a.id \in {"f1"} }

AlertInit ==
  /\ now = 1
  /\ session = NewSession(<<RosterEntry("s1")>>)
  /\ everLive = FALSE
  /\ sessRes = NoAnswer
  /\ poll = NewPoll("single_choice", FALSE, NULL)
  /\ pollRes = NoPollAnswer
  /\ resBody = NoBody
  /\ att = NoAttendance
  /\ attRes = NoAnswer
  /\ emitted = <<>>
  /\ msg = NoMessage
  /\ chatRes = NoAnswer
  /\ sessions = <<>>
  /\ reqs = <<>>

AlertNext ==
  \/ \E rq \in AlertReports :
        reportActivity([id |-> AttStudent, role |-> "student"], rq)
  \/ \E rq \in AlertReports :
        recordStudentActivity([id |-> AttStudent, role |-> "student"], rq)
  \/ \E p \in AlertPoints, live \in BOOLEAN :
        Ctrl_updateLocation([id |-> AttStudent, role |-> "student"], p, live)
  \/ Model_updateEngagement([id |-> AttStudent, role |-> "student"], "poll")
  \/ \E a \in Resolvers, k \in AlertIds, r \in Resolutions :
        Ctrl_resolveAlert(a, k, r)

AlertSpec == AlertInit /\ [][AlertNext]_vars

\* votes whose later steps may throw; s1 may have an Attendance record
VoteFxInit ==
  /\ now = 1
  /\ session = NewSession(<<RosterEntry("s1")>>)
  /\ everLive = FALSE
  /\ sessRes = NoAnswer
  /\ \E type \in {"single_choice", "text_response"} :
        poll = NewPoll(type, FALSE, NULL)
  /\ pollRes = NoPollAnswer
  /\ resBody = NoBody
  /\ att \in {NoAttendance, NewAttendance(1, TRUE)}
  /\ attRes = NoAnswer
  /\ emitted = <<>>
  /\ msg = NoMessage
  /\ chatRes = NoAnswer
  /\ sessions = <<>>
  /\ reqs = <<>>

VoteFxNext ==
  \/ \E a \in Voters, rq \in VoteRequests, f \in Failures :
        Rest_votePoll(a, rq.pid, rq.body.oi, rq.body.text, f)
  \/ \E a \in Voters, rq \in VoteRequests, f \in Failures :
        Socket_poll_vote(a, rq.pid, rq.body.oi, rq.body.text, f)
  \/ \E a \in Actors, pid \in PollIds : Ctrl_closePoll(a, pid)
  \/ Tick

VoteFxSpec == VoteFxInit /\ [][VoteFxNext]_vars

\* votes on polls of every showResults setting, none of whose steps throws
BroadcastInit ==
  /\ now = 1
  /\ session = NewSession(<<RosterEntry("s1")>>)
  /\ everLive = FALSE
  /\ sessRes = NoAnswer
  /\ \E type \in {"single_choice", "text_response"},
        sr \in {"never", "after_vote", "after_close", "real_time"},
        exp \in {NULL, 1} :
        poll = [NewPoll(type, FALSE, exp) EXCEPT !.settings.showResults = sr]
  /\ pollRes = NoPollAnswer
  /\ resBody = NoBody
  /\ att = NoAttendance
  /\ attRes = NoAnswer
  /\ emitted = <<>>
  /\ msg = NoMessage
  /\ chatRes = NoAnswer
  /\ sessions = <<>>
  /\ reqs = <<>>

BroadcastNext ==
  \/ \E a \in Voters, rq \in VoteRequests :
        Rest_votePoll(a, rq.pid, rq.body.oi, rq.body.text, "none")
  \/ \E a \in Voters, rq \in VoteRequests :
        Socket_poll_vote(a, rq.pid, rq.body.oi, rq.body.text, "none")
  \/ \E a \in Actors : Ctrl_closePoll(a, PollId)
  \/ Tick

BroadcastSpec == BroadcastInit /\ [][BroadcastNext]_vars

\* reactions of three users to a message sent by s1
ReactionInit ==
  /\ now = 1
  /\ session = NewSession(<<RosterEntry("s1")>>)
  /\ everLive = FALSE
  /\ sessRes = NoAnswer
  /\ poll = NewPoll("single_choice", FALSE, NULL)
  /\ pollRes = NoPollAnswer
  /\ resBody = NoBody
  /\ att = NoAttendance
  /\ attRes = NoAnswer
  /\ emitted = <<>>
  /\ msg = NewMessage("s1", <<"a">>, 1)
  /\ chatRes = NoAnswer
  /\ sessions = <<>>
  /\ reqs = <<>>

ReactionNext ==
  \/ \E e \in {"rest", "socket"}, a \in ChatUsers, mid \in MsgIds,
        em \in Emojis, linked \in BOOLEAN : AddReaction(e, a, mid, em, linked)
  \/ \E e \in {"rest", "socket"}, a \in ChatUsers, mid \in MsgIds,
        em \in Emojis : RemoveReaction(e, a, mid, em)

ReactionSpec == ReactionInit /\ [][ReactionNext]_vars

\* edits and deletions of a message sent by s1
MessageInit ==
  /\ now = 1
  /\ session = NewSession(<<RosterEntry("s1")>>)
  /\ everLive = FALSE
  /\ sessRes = NoAnswer
  /\ poll = NewPoll("single_choice", FALSE, NULL)
  /\ pollRes = NoPollAnswer
  /\ resBody = NoBody
  /\ att = NoAttendance
  /\ attRes = NoAnswer
  /\ emitted = <<>>
  /\ \E text \in {<<"a">>, <<" ", "b", " ">>} : msg = NewMessage("s1", text, 1)
  /\ chatRes = NoAnswer
  /\ sessions = <<>>
  /\ reqs = <<>>

MessageNext ==
  \/ \E e \in {"rest", "socket"}, a \in ChatUsers, mid \in MsgIds,
        text \in TextInputs : EditMessage(e, a, mid, text)
  \/ \E e \in {"rest", "socket"}, a \in ChatUsers, mid \in MsgIds :
        DeleteMessage(e, a, mid)
  \/ Tick

MessageSpec == MessageInit /\ [][MessageNext]_vars

\* direct reads of a choice or text poll between votes and its close
Readers == Actors \cup Voters
ShowResults == {"never", "after_vote", "after_close", "real_time"}

ReadInit ==
  /\ now = 1
  /\ session = NewSession(<<RosterEntry("s1")>>)
  /\ everLive = FALSE
  /\ sessRes = NoAnswer
  /\ \E type \in {"single_choice", "text_response"}, sr \in ShowResults,
        an \in BOOLEAN :
        poll = [NewPoll(type, FALSE, NULL) EXCEPT !.settings.showResults = sr,
                                                  !.isAnonymous = an]
  /\ pollRes = NoPollAnswer
  /\ resBody = NoBody
  /\ att = NoAttendance
  /\ attRes = NoAnswer
  /\ emitted = <<>>
  /\ msg = NoMessage
  /\ chatRes = NoAnswer
  /\ sessions = <<>>
  /\ reqs = <<>>

ReadNext ==
  \/ \E a \in Voters, oi \in 0..(NumOptions - 1) :
        Rest_votePoll(a, PollId, oi, <<"a">>, "none")
  \/ \E a \in Actors : Ctrl_closePoll(a, PollId)
  \/ \E a \in Readers, pid \in PollIds : Rest_getPollById(a, pid)
  \/ Tick

ReadSpec == ReadInit /\ [][ReadNext]_vars

\* ---------------------------------------------------------------- college sessions
\* sessions the college creates in the model
MaxSessions == 3

\* College subscription.maxConcurrentSessions (schema default)
maxConcurrentSessions == 2

\* ClassSession.countDocuments({ college, status: 'live' })
countLive(all) == Cardinality({i \in 1..Len(all) : all[i].status = "live"})

\* collegeSchema.methods.canCreateSession
canCreateSession(currentActiveSessions) ==
  currentActiveSessions < maxConcurrentSessions

\* a request on the college's sessions records its answer and leaves the
\* list as given
CollegeAnswer(op, entry, actor, res, all) ==
  /\ sessions' = all
  /\ sessRes' = [op |-> op, entry |-> entry, actor |-> actor, res |-> res]
  /\ emitted' = <<>>
  /\ UNCHANGED <<msg, chatRes>>
  /\ UNCHANGED <<now, session, everLive, poll, pollRes, reqs, resBody,
                 att, attRes>>

\* controllers/sessionController.js createSession behind POST / (faculty
\* or admin): the plan's limit is tested against the sessions that are
\* live now, then the new session is saved as scheduled.  Every session
\* of the model is created for faculty f1.
Ctrl_createSession(actor) ==
  /\ Len(sessions) < MaxSessions
  /\ IF ~requireRole(actor, {"faculty", "admin"})
     THEN CollegeAnswer("create", "rest", actor, "PermissionDenied", sessions)
     ELSE IF ~canCreateSession(countLive(sessions))
     THEN CollegeAnswer("create", "rest", actor, "SessionLimitExceeded",
                        sessions)
     ELSE CollegeAnswer("create", "rest", actor, "ok",
                        Append(sessions, NewSession(<<>>)))

\* a handler run on the college's i-th session
OnSession(i, op, entry, actor, o) ==
  CollegeAnswer(op, entry, actor, o.res, [sessions EXCEPT ![i] = o.doc])

College_startSession(actor, i) ==
  OnSession(i, "start", "rest", actor, startOutcome(actor, sessions[i], now))

College_endSession(actor, i) ==
  OnSession(i, "end", "rest", actor, endOutcome(actor, sessions[i], now))

College_pauseResumeSession(actor, action, i) ==
  OnSession(i, action, "rest", actor,
            pauseResumeOutcome(actor, action, sessions[i]))

College_deleteSession(actor, i) ==
  OnSession(i, "cancel", "rest", actor, deleteOutcome(actor, sessions[i]))

College_session_control(actor, action, i) ==
  OnSession(i, action, "socket", actor,
            controlOutcome(actor, action, sessions[i], now))

\* who asks for a new session: its faculty, the admin naming that
\* faculty, a student
Creators == { a \in Actors : a.id \in {"f1", "a1", "s1"} }

CollegeInit ==
  /\ now = 1
  /\ session = NewSession(<<RosterEntry("s1")>>)
  /\ everLive = FALSE
  /\ sessRes = NoAnswer
  /\ poll = NewPoll("single_choice", FALSE, NULL)
  /\ pollRes = NoPollAnswer
  /\ resBody = NoBody
  /\ att = NoAttendance
  /\ attRes = NoAnswer
  /\ emitted = <<>>
  /\ msg = NoMessage
  /\ chatRes = NoAnswer
  /\ sessions = <<>>
  /\ reqs = <<>>

CollegeNext ==
  \/ \E a \in Creators : Ctrl_createSession(a)
  \/ \E a \in Actors, i \in 1..Len(sessions) : College_startSession(a, i)
  \/ \E a \in Actors, i \in 1..Len(sessions) : College_endSession(a, i)
  \/ \E a \in Actors, i \in 1..Len(sessions), act \in {"pause", "resume"} :
        College_pauseResumeSession(a, act, i)
  \/ \E a \in Actors, i \in 1..Len(sessions) : College_deleteSession(a, i)
  \/ \E a \in Actors, i \in 1..Len(sessions),
        act \in {"start", "end", "pause", "resume", "restart"} :
        College_session_control(a, act, i)

CollegeSpec == CollegeInit /\ [][CollegeNext]_vars

\* ---------------------------------------------------------------- session claims
OwnerActor == [id |-> "f1", role |-> "faculty"]
Transitions == {"start", "pause", "resume", "end", "cancel"}

\* C3: ended and cancelled are terminal: once the status is ended or
\* cancelled no operation changes it again.
C3_TerminalStatus ==
  [][session.status \in {"ended", "cancelled"}
       => session'.status = session.status]_vars

\* C4: ending a session checks out everyone: every roster entry present
\* immediately before a successful end is not present afterwards and has
\* leftAt set, and the status is ended.
C4_EndChecksOutEveryone ==
  [][(sessRes'.op = "end" /\ sessRes'.res = "ok")
       => /\ session'.status = "ended"
          /\ Len(session'.students) = Len(session.students)
          /\ \A i \in 1..Len(session.students) :
                session.students[i].isPresent
                  => /\ ~session'.students[i].isPresent
                     /\ session'.students[i].leftAt # NULL]_vars

\* C5: start by the owner on a live, ended or cancelled session fails with
\* InvalidState and leaves status, isActive and actualStartTime unchanged,
\* on the REST and on the socket entry point.
C5_StartRejected ==
  [][(/\ sessRes'.op = "start"
      /\ sessRes'.actor = OwnerActor
      /\ session.status \in {"live", "ended", "cancelled"})
       => /\ sessRes'.res = "InvalidState"
          /\ session'.status = session.status
          /\ session'.isActive = session.isActive
          /\ session'.actualStartTime = session.actualStartTime]_vars

\* C6: actualStartTime is set iff the status has ever been live,
\* actualEndTime is set iff the status is ended, and once set
\* actualStartTime never changes.
C6_ActualTimes ==
  /\ []((session.actualStartTime # NULL) <=> everLive)
  /\ []((session.actualEndTime # NULL) <=> (session.status = "ended"))
  /\ [][session.actualStartTime # NULL
          => session'.actualStartTime = session.actualStartTime]_vars

\* C7 as stated: every transition attempted by an actor who is not the
\* owning faculty fails with PermissionDenied and leaves the session
\* unchanged.
C7_NonOwnerDenied_Original ==
  [][(sessRes'.op \in Transitions /\ sessRes'.actor.id # Owner)
       => (sessRes'.res = "PermissionDenied" /\ session' = session)]_vars

\* C7 amended: every transition attempted by an actor who is not the
\* owning faculty fails with PermissionDenied and leaves the session
\* unchanged, except cancel attempted by an admin.
C7_NonOwnerDenied ==
  [][(/\ sessRes'.op \in Transitions
      /\ sessRes'.actor.id # Owner
      /\ ~(sessRes'.op = "cancel" /\ sessRes'.actor.role = "admin"))
       => (sessRes'.res = "PermissionDenied" /\ session' = session)]_vars

\* a faculty who does not own the session was refused the cancel of a
\* started session
C7_Witness ==
  /\ sessRes.op = "cancel"
  /\ sessRes.actor = [id |-> "f2", role |-> "faculty"]
  /\ sessRes.res = "PermissionDenied"
  /\ session.status = "paused"

\* the status from which a pause or a resume is allowed, and where it leads
PauseResumeFrom(op) == IF op = "pause" THEN "live" ELSE "paused"
PauseResumeTo(op) == IF op = "pause" THEN "paused" ELSE "live"

\* C25: pause succeeds only from live and then sets paused; resume succeeds
\* only from paused and then sets live; attempted by the session's owner in
\* any other status each fails with InvalidState and leaves the session
\* unchanged; neither ever changes the roster, actualStartTime or
\* actualEndTime.
C25_PauseResume ==
  [][sessRes'.op \in {"pause", "resume"} =>
       /\ session'.students = session.students
       /\ session'.actualStartTime = session.actualStartTime
       /\ session'.actualEndTime = session.actualEndTime
       /\ sessRes'.res = "ok"
            => /\ session.status = PauseResumeFrom(sessRes'.op)
               /\ session'.status = PauseResumeTo(sessRes'.op)
       /\ sessRes'.res # "ok" => session' = session
       /\ sessRes'.actor = OwnerActor
            => IF session.status = PauseResumeFrom(sessRes'.op)
               THEN sessRes'.res = "ok"
               ELSE sessRes'.res = "InvalidState"]_vars

\* the owner has just paused a live session that a student is attending
C25_Witness ==
  /\ sessRes.op = "pause" /\ sessRes.res = "ok"
  /\ session.status = "paused"
  /\ session.actualStartTime # NULL
  /\ \E i \in 1..Len(session.students) : session.students[i].isPresent

\* C26: cancel succeeds only when the status is not live, and whenever it
\* succeeds (from paused too) the cancelled session has no roster entry
\* with isPresent = true.
C26_CancelNeedsNoCheckout ==
  [][(sessRes'.op = "cancel" /\ sessRes'.res = "ok") =>
       /\ session.status # "live"
       /\ session'.status = "cancelled"
       /\ \A i \in 1..Len(session'.students) :
             ~session'.students[i].isPresent]_vars

\* ---------------------------------------------------------------- poll claims
UserIds == {"s1", "s2", "f1"}

\* how many voter entries of user u the options of d hold
VoteCount(d, u) ==
  Cardinality(UNION { { <<i, j>> : j \in { n \in 1..Len(d.options[i].voters) :
                                            d.options[i].voters[n].user = u } } :
                      i \in 1..Len(d.options) })

\* how many text responses of user u d holds
ResponseCount(d, u) ==
  Cardinality({ i \in 1..Len(d.textResponses) : d.textResponses[i].user = u })

\* the voter entries of user u in option i of d, in order
EntriesOf(d, i, u) == SelectSeq(d.options[i].voters, LAMBDA v : v.user = u)

TotalVoters(d) ==
  Cardinality(UNION { { <<i, j>> : j \in 1..Len(d.options[i].voters) } :
                      i \in 1..Len(d.options) })

\* C1: over any sequence of completed votes and revotes each user is a
\* voter at most once across all options, a text respondent at most once,
\* and never both.
C1_OneVotePerUser ==
  \A u \in UserIds :
    /\ VoteCount(poll, u) <= 1
    /\ ResponseCount(poll, u) <= 1
    /\ ~(VoteCount(poll, u) >= 1 /\ ResponseCount(poll, u) >= 1)

\* a revote has just been stored: the actor had a vote before and holds
\* one now, next to another user's vote
C1_Witness ==
  /\ pollRes.op = "vote" /\ pollRes.res = "ok" /\ pollRes.prior
  /\ poll.type = "single_choice"
  /\ VoteCount(poll, pollRes.actor.id) = 1
  /\ TotalVoters(poll) = 2

\* C2: two overlapping votes of one user on a choice poll with
\* allowChangeVote=false never leave that user stored as a voter more
\* than once.
C2_NoDuplicateVoter ==
  (poll.type # "text_response" /\ ~poll.settings.allowChangeVote)
    => \A u \in UserIds : VoteCount(poll, u) <= 1

\* both requests of s1 loaded the poll without a vote and chose different
\* options; the first save was stored and the second one refused
C2_Witness ==
  /\ poll.type = "single_choice" /\ ~poll.settings.allowChangeVote
  /\ reqs[1].pc = "done" /\ reqs[2].pc = "done"
  /\ reqs[1].actor.id = "s1" /\ reqs[2].actor.id = "s1"
  /\ reqs[1].oi # reqs[2].oi
  /\ VoteCount(reqs[1].doc, "s1") = 0 /\ VoteCount(reqs[2].doc, "s1") = 0
  /\ \E r \in {1, 2} : reqs[r].res = "ok"
  /\ \E r \in {1, 2} : reqs[r].res \in {"ServerError", "VoteFailed"}
  /\ VoteCount(poll, "s1") = 1

VoteStep == pollRes'.op = "vote"

\* the request of the step passes every check made before the scan for an
\* earlier vote (poll found, active, not expired, actor allowed, option valid)
ReachesScan ==
  /\ pollRes'.res # "PollNotFound"
  /\ poll.isActive
  /\ ~(poll.expiresAt # NULL /\ now > poll.expiresAt)
  /\ \/ pollRes'.entry = "model"
     \/ pollRes'.actor.role # "student"
     \/ \E i \in 1..Len(session.students) :
           session.students[i].student = pollRes'.actor.id
  /\ pollRes'.oi \in 0..(Len(poll.options) - 1)

\* C8: on a choice poll with allowChangeVote=false a vote by a user who
\* already has a vote fails with AlreadyVoted (unless an earlier check
\* already refused the request) and leaves every option's voters and vote
\* count unchanged.
C8_AlreadyVoted ==
  [][(/\ VoteStep
      /\ poll.type # "text_response"
      /\ ~poll.settings.allowChangeVote
      /\ VoteCount(poll, pollRes'.actor.id) >= 1)
       => /\ poll'.options = poll.options
          /\ pollRes'.res # "ok"
          /\ ReachesScan => pollRes'.res \in {"AlreadyVoted"}]_vars

\* s1 voted option 0, then asked for option 1 and was refused; the vote is
\* still on option 0
C8_Witness ==
  /\ pollRes.op = "vote" /\ pollRes.res = "AlreadyVoted"
  /\ pollRes.actor.id = "s1" /\ pollRes.oi = 1
  /\ ~poll.settings.allowChangeVote
  /\ Len(EntriesOf(poll, 1, "s1")) = 1
  /\ poll.options[1].votes = 1
  /\ poll.options[2].votes = 0

\* C9: on a choice poll with allowChangeVote=true a successful revote
\* leaves the user a voter of exactly the new option, keeps the poll's
\* total vote count, and leaves every other user's votes as they were.
C9_Revote ==
  [][(/\ VoteStep
      /\ pollRes'.res = "ok"
      /\ poll.type # "text_response"
      /\ poll.settings.allowChangeVote
      /\ VoteCount(poll, pollRes'.actor.id) >= 1)
       => LET u == pollRes'.actor.id
              k == pollRes'.oi + 1
          IN /\ VoteCount(poll', u) = 1
             /\ Len(EntriesOf(poll', k, u)) = 1
             /\ TotalVoters(poll') = TotalVoters(poll)
             /\ sumVotes(poll'.options) = sumVotes(poll.options)
             /\ poll'.results.totalVotes = poll.results.totalVotes
             /\ \A i \in 1..Len(poll.options) :
                   /\ poll'.options[i].votes = Len(poll'.options[i].voters)
                   /\ \A w \in UserIds \ {u} :
                         EntriesOf(poll', i, w) = EntriesOf(poll, i, w)]_vars

\* s1 moved its vote to option 1 while f1's vote stayed on option 0
C9_Witness ==
  /\ pollRes.op = "vote" /\ pollRes.res = "ok" /\ pollRes.prior
  /\ pollRes.actor.id = "s1" /\ pollRes.oi = 1
  /\ poll.settings.allowChangeVote
  /\ Len(EntriesOf(poll, 2, "s1")) = 1
  /\ Len(EntriesOf(poll, 1, "s1")) = 0
  /\ Len(EntriesOf(poll, 1, "f1")) = 1

\* C10: a vote on an inactive poll, or on one whose expiresAt is earlier
\* than now, fails and records nothing; a vote at exactly expiresAt = now
\* is accepted; and once the poll is closed its voters and textResponses
\* never change again.
C10_NoVoteAfterClose ==
  [][/\ (VoteStep /\ (~poll.isActive
                        \/ (poll.expiresAt # NULL /\ poll.expiresAt < now)))
          => (pollRes'.res # "ok" /\ poll' = poll)
     /\ (/\ VoteStep
         /\ poll.type # "text_response"
         /\ poll.expiresAt = now
         /\ ReachesScan
         /\ (poll.settings.allowChangeVote
               \/ VoteCount(poll, pollRes'.actor.id) = 0))
          => (/\ pollRes'.res = "ok"
              /\ Len(EntriesOf(poll', pollRes'.oi + 1, pollRes'.actor.id)) = 1)
     /\ ~poll.isActive
          => /\ ~poll'.isActive
             /\ poll'.options = poll.options
             /\ poll'.textResponses = poll.textResponses]_vars

\* a vote cast at the instant expiresAt is stored, the poll was closed
\* afterwards, and a later vote was refused
C10_Witness ==
  /\ pollRes.op = "vote"
  /\ pollRes.res \in {"PollInactive", "PollInactiveOrExpired"}
  /\ ~poll.isActive /\ poll.closedAt # NULL
  /\ \E i \in 1..Len(poll.options) :
       \E j \in 1..Len(poll.options[i].voters) :
         poll.options[i].voters[j].votedAt = poll.expiresAt

\* C12: in every stored poll each option's votes equals the length of its
\* voters list, results.totalVotes equals the number of voter entries over
\* all options, and results.totalTextResponses equals the number of
\* textResponses.
C12_CountsMatch ==
  /\ \A i \in 1..Len(poll.options) :
        poll.options[i].votes = Len(poll.options[i].voters)
  /\ poll.results.totalVotes = TotalVoters(poll)
  /\ poll.results.totalTextResponses = Len(poll.textResponses)

\* a revote was stored after which option 1 holds both votes of the poll
C12_Witness ==
  /\ pollRes.op = "vote" /\ pollRes.res = "ok" /\ pollRes.prior
  /\ poll.type = "single_choice"
  /\ poll.options[2].votes = 2
  /\ poll.options[1].votes = 0
  /\ poll.results.totalVotes = 2

\* ---------------------------------------------------------------- enrollment claims
\* how many roster entries student s has
RosterCount(roster, s) ==
  Cardinality({ i \in 1..Len(roster) : roster[i].student = s })

\* the request of the step is one the handler has no reason to refuse
AcceptableEnroll ==
  /\ sessRes'.op = "enroll"
  /\ sessRes'.actor.role = "admin" \/ sessRes'.actor = OwnerActor
  /\ Len(sessRes'.ids) > 0
  /\ \A i \in 1..Len(sessRes'.ids) :
        /\ sessRes'.ids[i] \in Students
        /\ \A j \in 1..Len(sessRes'.ids) : i # j => sessRes'.ids[i] # sessRes'.ids[j]

\* C13: an enroll call adds no entry for a student already on the roster
\* and counts that student under alreadyEnrolled; every call answers with
\* enrolledCount + alreadyEnrolled equal to the number of ids submitted, and
\* afterwards each submitted student is on the roster exactly once.
C13_EnrollIdempotent ==
  [][AcceptableEnroll
       => LET ids == sessRes'.ids
              before == { i \in 1..Len(ids) : RosterCount(session.students, ids[i]) >= 1 }
          IN /\ \A s \in Students :
                   RosterCount(session.students, s) >= 1
                     => RosterCount(session'.students, s) = RosterCount(session.students, s)
             /\ sessRes'.res = "ok"
             /\ resBody'.alreadyEnrolled = Cardinality(before)
             /\ resBody'.enrolledCount + resBody'.alreadyEnrolled = Len(ids)
             /\ \A i \in 1..Len(ids) : RosterCount(session'.students, ids[i]) = 1]_vars

\* C14: when enroll requests naming the same student overlap, no
\* interleaving leaves the stored roster with two entries for a student.
C14_NoDuplicateEnrollment ==
  \A s \in Students : RosterCount(session.students, s) <= 1

\* ---------------------------------------------------------------- attendance claims
\* the join of the step comes too late for the session as it stands
LateNow ==
  /\ session.actualStartTime # NULL
  /\ now > session.actualStartTime + session.settings.lateJoinCutoffMinutes

\* the roster's presence flags and the Attendance record's flag
RosterPresence(d) == [i \in 1..Len(d.students) |-> d.students[i].isPresent]
AttPresence(a) == a.exists /\ a.isPresent

\* C15: a join succeeds and marks the student present only on a live
\* session and, when late, only with allowLateJoin; a join on a session that
\* is not live, or a late join with allowLateJoin=false, fails
\* (LateJoinRejected in the late case) and leaves presence unchanged.
C15_JoinOnlyLive ==
  [][(attRes'.op = "join" \/ sessRes'.op = "join")
       => LET res == IF attRes'.op = "join" THEN attRes'.res ELSE sessRes'.res
          IN /\ session.status # "live"
                  => /\ res # "ok"
                     /\ RosterPresence(session') = RosterPresence(session)
                     /\ AttPresence(att') = AttPresence(att)
             /\ (session.status = "live" /\ LateNow
                   /\ ~session.settings.allowLateJoin)
                  => /\ res = "LateJoinRejected"
                     /\ RosterPresence(session') = RosterPresence(session)
                     /\ AttPresence(att') = AttPresence(att)]_vars

\* the five monitored activity types with the severity and the counter the
\* claim gives each
MonitoredTypes == { "tab_switch", "app_switch", "window_focus_loss",
                    "screenshot_attempt", "recording_attempt" }
SeverityOf(ty) ==
  CASE ty = "tab_switch" -> "medium"
    [] ty = "app_switch" -> "high"
    [] ty = "window_focus_loss" -> "low"
    [] ty = "screenshot_attempt" -> "high"
    [] ty = "recording_attempt" -> "critical"
CounterOf(ty) ==
  CASE ty = "tab_switch" -> "tabSwitches"
    [] ty = "app_switch" -> "appSwitches"
    [] ty = "window_focus_loss" -> "windowFocusLoss"
    [] ty = "screenshot_attempt" -> "screenshotAttempts"
    [] ty = "recording_attempt" -> "recordingAttempts"

ThreeTabSwitches ==
  [i \in 1..3 |-> Alert("tab_switch", "medium")]

\* C16: an activity report of one of the five monitored types on an
\* existing record appends exactly one alert of that type with its fixed
\* severity and adds one to the matching counter; a screenshot_attempt
\* after exactly three tab_switch reports leaves behaviorScore 74 and
\* riskLevel medium.
C16_ActivityAlert ==
  [][(/\ attRes'.op = "activity"
      /\ att.exists /\ attRes'.actor.id = AttStudent
      /\ attRes'.arg.type \in MonitoredTypes)
       => LET ty == attRes'.arg.type
              n == Len(att.alerts)
          IN /\ attRes'.res = "ok"
             /\ Len(att'.alerts) = n + 1
             /\ SubSeq(att'.alerts, 1, n) = att.alerts
             /\ att'.alerts[n + 1] = Alert(ty, SeverityOf(ty))
             /\ att'.activityMonitoring =
                  [att.activityMonitoring EXCEPT ![CounterOf(ty)] = @ + 1]
             /\ (att.alerts = ThreeTabSwitches /\ ty = "screenshot_attempt")
                  => /\ att'.calculated.behaviorScore = 74
                     /\ att'.calculated.riskLevel = "medium"]_vars

\* behaviorScore and riskLevel as the claim computes them from a record
ClaimedScore(a) ==
  LET m == a.activityMonitoring
      raw == 100 - (2 * m.tabSwitches + 5 * m.appSwitches + m.windowFocusLoss
                      + 20 * m.screenshotAttempts + 30 * m.recordingAttempts)
  IN IF raw < 0 THEN 0 ELSE IF raw > 100 THEN 100 ELSE raw

SeverityCount(a, sev) ==
  Cardinality({ i \in DOMAIN a.alerts : a.alerts[i].severity = sev })

ClaimedRisk(a) ==
  IF SeverityCount(a, "critical") >= 1 \/ ClaimedScore(a) < 30 THEN "critical"
  ELSE IF SeverityCount(a, "high") > 2 \/ ClaimedScore(a) < 50 THEN "high"
  ELSE IF SeverityCount(a, "high") >= 1 \/ ClaimedScore(a) < 70 THEN "medium"
  ELSE "low"

\* C17: every stored Attendance record carries the behaviorScore and the
\* riskLevel that its current counters and alerts determine.
C17_DerivedScores ==
  att.exists => /\ att.calculated.behaviorScore = ClaimedScore(att)
                /\ att.calculated.riskLevel = ClaimedRisk(att)

\* a third app_switch report was stored: three high alerts, score 85, risk
\* high
C17_Witness ==
  /\ attRes.op = "activity" /\ attRes.res = "ok"
  /\ attRes.arg.type = "app_switch"
  /\ att.exists
  /\ SeverityCount(att, "high") = 3
  /\ att.calculated.behaviorScore = 85
  /\ att.calculated.riskLevel = "high"

\* C18: an activity report for a pair without an Attendance record fails
\* with AttendanceNotFound whatever its activityType, creates no record and
\* changes no stored document.
C18_NoRecordNoActivity ==
  [][(/\ attRes'.op = "activity"
      /\ ~(att.exists /\ attRes'.actor.id = AttStudent))
       => /\ attRes'.res = "AttendanceNotFound"
          /\ att' = att
          /\ session' = session
          /\ poll' = poll]_vars

\* s2, who has no record, reported a tab switch next to s1's record and was
\* refused; s1's record has no alert
C18_Witness ==
  /\ attRes.op = "activity" /\ attRes.res = "AttendanceNotFound"
  /\ attRes.actor.id = "s2"
  /\ attRes.arg.type = "tab_switch"
  /\ att.exists /\ att.alerts = <<>>

\* C19: a location update appends one location_change alert exactly when
\* the record held a location more than 0.1 km from the new point (high
\* above 1 km, medium otherwise), none on the record's first update, and
\* always stores the new point with isVerified=true.
C19_LocationAlert ==
  [][(attRes'.op = "location" /\ att'.exists
        /\ attRes'.res \notin {"NotEnrolled", "AttendanceNotFound"})
       => LET p == attRes'.arg
              old == IF att.exists THEN att.alerts ELSE <<>>
              held == att.exists /\ att.location.held
              far == IF held THEN calculateDistance(att.location.at, p) ELSE 0
          IN /\ att'.location = [held |-> TRUE, at |-> p, isVerified |-> TRUE]
             /\ (held /\ far > 100)
                  => /\ att'.alerts = Append(old,
                          Alert("location_change",
                                IF far > 1000 THEN "high" ELSE "medium"))
             /\ ~(held /\ far > 100) => att'.alerts = old]_vars

\* C20: a vote that has been stored is reported as a success and stays
\* stored, also when the Attendance engagement update or the broadcast that
\* follows it fails.
C20_BestEffort ==
  [][(VoteStep /\ poll' # poll)
       => /\ pollRes'.res = "ok"
          /\ VoteCount(poll', pollRes'.actor.id)
               + ResponseCount(poll', pollRes'.actor.id) = 1]_vars

\* ---------------------------------------------------------------- broadcast claims
RejectedVote == { "PollNotFound", "PollInactive", "PollExpired",
                  "PollInactiveOrExpired", "NotEnrolled", "InvalidOption",
                  "TextRequired", "AlreadyVoted", "AlreadyResponded" }

\* the one published event tells the stored poll's counts, unfiltered
TellsStoredCounts(e, d) ==
  /\ e.event = "poll_updated"
  /\ e.room = SessionRoom
  /\ Len(e.options) = Len(d.options)
  /\ \A i \in 1..Len(d.options) :
        e.options[i].text = i /\ e.options[i].votes = Len(d.options[i].voters)
  /\ e.totalVotes = TotalVoters(d)
  /\ e.totalResponses = Len(d.textResponses)

\* C21: every successful vote publishes exactly one poll_updated event to
\* the session's room, carrying each option's text and vote count and the
\* totals of the poll as saved, whatever showResults is; a rejected vote
\* publishes nothing and saves nothing.
C21_VoteBroadcast ==
  [][VoteStep =>
       /\ pollRes'.res = "ok"
            => (Len(emitted') = 1 /\ TellsStoredCounts(emitted'[1], poll'))
       /\ pollRes'.res \in RejectedVote
            => (emitted' = <<>> /\ poll' = poll)
       /\ pollRes'.res \in RejectedVote \cup {"ok"}]_vars

\* a second voter's vote is published on a poll whose results are never
\* shown, with the first vote's count in it
C21_Witness ==
  /\ pollRes.op = "vote" /\ pollRes.res = "ok"
  /\ poll.settings.showResults = "never"
  /\ poll.type = "single_choice"
  /\ Len(emitted) = 1
  /\ emitted[1].totalVotes = 2

\* the vote in this step is made by a student who is not on the roster
OutsiderVotes ==
  /\ VoteStep
  /\ pollRes'.actor.role = "student"
  /\ RosterCount(session.students, pollRes'.actor.id) = 0

\* every student among the poll's voters and respondents is on the roster
VotersEnrolled ==
  \A u \in Students :
     VoteCount(poll, u) + ResponseCount(poll, u) > 0
       => RosterCount(session.students, u) > 0

\* C22: a vote by a student who is not on the session roster fails and
\* changes nothing, with NotEnrolled whenever it passes the checks made
\* before the roster test (poll found, active, not expired) and with the
\* failure of that earlier check otherwise; every student recorded as a
\* voter or respondent is on the roster.
C22_NotEnrolled ==
  /\ [][OutsiderVotes =>
          /\ poll' = poll
          /\ emitted' = <<>>
          /\ UNCHANGED <<msg, chatRes, sessions>>
          /\ pollRes'.res \in { "NotEnrolled", "PollNotFound", "PollInactive",
                                "PollExpired", "PollInactiveOrExpired" }
          /\ pollRes'.res \in { "PollInactive", "PollExpired",
                                "PollInactiveOrExpired" }
               <=> (/\ pollRes'.res # "PollNotFound"
                    /\ (~poll.isActive
                          \/ (poll.expiresAt # NULL /\ poll.expiresAt < now)))]_vars
  /\ []VotersEnrolled

\* an outsider is refused as not enrolled on an open poll that already has
\* a vote
C22_Witness ==
  /\ pollRes.op = "vote" /\ pollRes.res = "NotEnrolled"
  /\ pollRes.actor.id = "s2"
  /\ poll.isActive
  /\ TotalVoters(poll) > 0

\* ---------------------------------------------------------------- chat claims
ChatUserIds == {"s1", "s2", "f1"}

\* how many times user u is listed under emoji e, over all entries of e
Occurrences(d, u, e) ==
  Cardinality({ <<i, j>> \in (1..Len(d.reactions)) \X (1..3) :
                  /\ d.reactions[i].emoji = e
                  /\ j <= Len(d.reactions[i].users)
                  /\ d.reactions[i].users[j] = u })

HasEntry(d, e) == \E i \in 1..Len(d.reactions) : d.reactions[i].emoji = e

ReactionStep(op) == chatRes'.op = op /\ chatRes'.res = "ok"

\* C23: adding a reaction is idempotent per (user, emoji): an addReaction
\* that directly repeats the same user's addReaction of the same emoji
\* changes nothing.  A user occurs at most once per emoji and each entry's
\* count is its number of users, in every reachable state; addReaction twice
\* then removeReaction once, from any reachable message, leaves the user zero
\* times under the emoji; a removeReaction leaves the user zero times under
\* the emoji, and leaves no entry of the emoji when it removed its last user.
C23_Reactions ==
  /\ [][(/\ ReactionStep("add_reaction")
         /\ chatRes.op = "add_reaction" /\ chatRes.res = "ok"
         /\ chatRes.actor.id = chatRes'.actor.id
         /\ chatRes.arg = chatRes'.arg)
          => msg' = msg]_vars
  /\ [](\A u \in ChatUserIds, e \in Emojis :
          /\ Occurrences(msg, u, e) <= 1
          /\ \A l1 \in BOOLEAN, l2 \in BOOLEAN :
               Occurrences(
                 removeReaction(
                   addReaction(addReaction(msg, u, e, l1), u, e, l2), u, e),
                 u, e) = 0)
  /\ [](\A i \in 1..Len(msg.reactions) :
          msg.reactions[i].count = Len(msg.reactions[i].users))
  /\ [][ReactionStep("remove_reaction") =>
          /\ Occurrences(msg', chatRes'.actor.id, chatRes'.arg) = 0
          /\ (\A u \in ChatUserIds : Occurrences(msg', u, chatRes'.arg) = 0)
               => ~HasEntry(msg', chatRes'.arg)]_vars

\* an edit or delete that found the message, by someone else than its sender
OtherMutates ==
  /\ chatRes'.op \in {"edit", "delete"}
  /\ chatRes'.res # "MessageNotFound"
  /\ chatRes'.actor.id # msg.sender

\* an edit or delete that found the message, by its sender
SenderDoes(op) ==
  /\ chatRes'.op = op
  /\ chatRes'.res # "MessageNotFound"
  /\ chatRes'.actor.id = msg.sender

\* C24: edit and delete by anyone but the sender fail with
\* PermissionDenied and leave the message unchanged; by the sender, an edit
\* whose text is not empty once trimmed sets the message to the trimmed
\* text and isEdited (keeping the previous text as originalMessage), an edit
\* whose text trims to nothing fails and leaves the message unchanged, and
\* delete sets isDeleted and keeps the message with its text.
C24_SenderOnly ==
  /\ [][OtherMutates => (chatRes'.res = "PermissionDenied" /\ msg' = msg)]_vars
  /\ [][SenderDoes("edit") =>
          IF trim(chatRes'.arg) # <<>>
          THEN /\ chatRes'.res = "ok"
               /\ msg'.message = trim(chatRes'.arg)
               /\ msg'.isEdited
               /\ msg'.originalMessage = msg.message
               /\ msg'.isDeleted = msg.isDeleted
          ELSE chatRes'.res \notin {"ok", "PermissionDenied"} /\ msg' = msg]_vars
  /\ [][SenderDoes("delete") =>
          /\ chatRes'.res = "ok"
          /\ msg'.isDeleted /\ msg'.exists
          /\ msg'.message = msg.message
          /\ msg'.isEdited = msg.isEdited]_vars

\* someone else has just been refused the deletion of a message that its
\* sender had edited
C24_Witness ==
  /\ chatRes.op = "delete" /\ chatRes.res = "PermissionDenied"
  /\ chatRes.actor.id = "f1"
  /\ msg.isEdited /\ ~msg.isDeleted
  /\ msg.message = <<"b">>

\* ---------------------------------------------------------------- read claims
\* the poll with every vote taken out: what differs between two polls that
\* differ only in their votes
eraseVotes(d) ==
  [d EXCEPT !.options = [i \in 1..Len(d.options) |-> [voters |-> <<>>, votes |-> 0]],
            !.results.totalVotes = 0]

\* the three cases in which the reader may see the counts
MaySeeCounts(d, u) ==
  \/ d.settings.showResults = "real_time"
  \/ (d.settings.showResults = "after_vote" /\ VoteCount(d, u) >= 1)
  \/ (d.settings.showResults = "after_close" /\ ~d.isActive)

\* C11: a direct read by an enrolled student outside the three cases
\* (real_time; after_vote and voted; after_close and inactive) answers the
\* same as it would on the poll without its votes.
C11_ReadVisibility ==
  (/\ pollRes.op = "read" /\ pollRes.res = "ok"
   /\ pollRes.actor.role = "student"
   /\ ~MaySeeCounts(poll, pollRes.actor.id))
    => resBody = pollResponse(eraseVotes(poll), pollRes.actor)

\* ---------------------------------------------------------------- overlap claims
\* the totals the store keeps of a poll
StoredTotal(d) == d.results.totalVotes + d.results.totalTextResponses

\* requests r1 and r2 of distinct enrolled users read the same base
\* document and both answered success, and no other request did
BothSucceeded(r1, r2) ==
  /\ r1 # r2
  /\ reqs[r1].pc = "done" /\ reqs[r2].pc = "done"
  /\ reqs[r1].res = "ok" /\ reqs[r2].res = "ok"
  /\ reqs[r1].actor.id # reqs[r2].actor.id
  /\ isEnrolled(session.students, reqs[r1].actor.id)
  /\ isEnrolled(session.students, reqs[r2].actor.id)
  /\ reqs[r1].doc = reqs[r2].doc
  /\ \A r3 \in ReqIds \ {r1, r2} : reqs[r3].res # "ok"

C28_ActiveIffLiveOrPaused ==
  session.isActive <=> session.status \in {"live", "paused"}

\* C29: the number of live sessions of the college never exceeds its
\* subscription.maxConcurrentSessions, over any sequence of create, start,
\* pause, resume, end and cancel.
C29_LiveWithinLimit == countLive(sessions) <= maxConcurrentSessions

\* ---------------------------------------------------------------- alert history claims
\* the order of the risk levels
RiskRank(level) ==
  CASE level = "low" -> 0
    [] level = "medium" -> 1
    [] level = "high" -> 2
    [] level = "critical" -> 3

\* an alert with what a resolution may write blanked out
Unresolved(al) ==
  [al EXCEPT !.isResolved = FALSE, !.resolvedAt = NULL,
             !.resolvedBy = "none", !.additionalData = [resolution |-> "none"]]

\* what an alert is, whatever its resolution
SameAlert(x, y) == Unresolved(x) = Unresolved(y)

\* C30: over every operation on an existing Attendance record the alerts
\* list only grows (each alert keeps its place and what it is), the
\* behaviorScore does not increase and the riskLevel does not move to a
\* lower level; a resolveAlert that succeeds changes nothing of the record
\* but isResolved, resolvedAt, resolvedBy and the extra data of the alert
\* it names.
C30_AlertHistory ==
  [][att.exists
       => /\ att'.exists
          /\ Len(att'.alerts) >= Len(att.alerts)
          /\ \A i \in 1..Len(att.alerts) :
                SameAlert(att'.alerts[i], att.alerts[i])
          /\ att'.calculated.behaviorScore <= att.calculated.behaviorScore
          /\ RiskRank(att'.calculated.riskLevel)
                >= RiskRank(att.calculated.riskLevel)
          /\ (attRes'.op = "resolve" /\ attRes'.res = "ok")
                => LET k == attRes'.arg
                   IN /\ att'.alerts[k].isResolved
                      /\ att'.alerts[k].resolvedAt = now
                      /\ att'.alerts[k].resolvedBy = attRes'.actor.id
                      /\ [att' EXCEPT !.alerts[k] = Unresolved(@)]
                           = [att EXCEPT !.alerts[k] = Unresolved(@)]
          /\ (attRes'.op = "resolve" /\ attRes'.res # "ok") => att' = att]_vars

\* the second of three alerts has been resolved with a note, by f1, on a
\* record whose risk level the alerts had raised
C30_Witness ==
  /\ att.exists /\ Len(att.alerts) = 3
  /\ attRes.op = "resolve" /\ attRes.res = "ok" /\ attRes.arg = 2
  /\ att.alerts[2].isResolved /\ att.alerts[2].resolvedBy = "f1"
  /\ att.alerts[2].additionalData.resolution = "checked"
  /\ ~att.alerts[1].isResolved /\ ~att.alerts[3].isResolved
  /\ att.calculated.riskLevel = "high"
  /\ att.calculated.behaviorScore < 100

====
